---- MODULE Spec2Model ----
(***************************************************************************)
(* Model of the polling engine of xau-tray (src-tauri/src/lib.rs):         *)
(* settings normalisation, the credential failover loop, the error         *)
(* backoff, the rotate/fixed display selection and the deadline            *)
(* scheduling of start_polling, together with save_settings_command that   *)
(* replaces the shared settings value concurrently.                        *)
(*                                                                         *)
(* Text.  A Rust String is modelled as a sequence of atoms.  An atom is    *)
(* a TLA+ string that stands for one white-space character (" " or "\n")   *)
(* or for a run of non-white-space characters ("XAUUSD", "*", "1").        *)
(* The module is ASCII only, so the non-ASCII literals of the source are   *)
(* written as ASCII glosses, each named where it is defined.               *)
(*                                                                         *)
(* Option<T> is the record [some |-> BOOLEAN, val |-> T].                  *)
(*                                                                         *)
(* Time.  Instants are kept as offsets in seconds from `now`, the instant  *)
(* read at the top of the current loop iteration; a deadline that is       *)
(* reached or past has offset 0.  `elapsed` is Instant::now() - now.       *)
(***************************************************************************)
EXTENDS Integers, Sequences, FiniteSets, TLC

(***************************************************************************)
(* Bounds of the model                                                     *)
(***************************************************************************)
\* seconds one fetch attempt may take: 0 .. MaxFetchSeconds (the client
\* timeout is 10 s; the model keeps the attempt short)
MaxFetchSeconds == 1
\* seconds by which a sleep may overrun the requested duration
MaxOverSleep == 1
\* the history counter of consecutive failed cycles saturates here
MaxFailStreak == 7
\* seconds up to which the time since the latest advance of rotate_index
\* is counted
MaxSince == 4

(***************************************************************************)
(* Program constants                                                       *)
(***************************************************************************)
ROTATE_MIN_SECONDS == 3
ROTATE_MAX_SECONDS == 3600
ERROR_BACKOFF_MAX_SECONDS == 300
default_refresh_seconds == 10
default_rotate_seconds == 10
\* api success code tested by fetch_batch_quotes
RET_OK == 200

(***************************************************************************)
(* Text helpers                                                            *)
(***************************************************************************)
Min(a, b) == IF a < b THEN a ELSE b
Max(a, b) == IF a > b THEN a ELSE b

IsWhite(c) == c \in {" ", "\n"}

RECURSIVE TrimStart(_)
TrimStart(s) ==
    IF s = <<>> THEN <<>>
    ELSE IF IsWhite(Head(s)) THEN TrimStart(Tail(s)) ELSE s

RECURSIVE TrimEnd(_)
TrimEnd(s) ==
    IF s = <<>> THEN <<>>
    ELSE IF IsWhite(s[Len(s)]) THEN TrimEnd(SubSeq(s, 1, Len(s) - 1)) ELSE s

\* str::trim
Trim(s) == TrimEnd(TrimStart(s))

\* the pieces of s between "\n" atoms, the last piece included even if empty
RECURSIVE SplitNewline(_, _)
SplitNewline(s, cur) ==
    IF s = <<>> THEN <<cur>>
    ELSE IF Head(s) = "\n" THEN <<cur>> \o SplitNewline(Tail(s), <<>>)
    ELSE SplitNewline(Tail(s), Append(cur, Head(s)))

\* str::lines: a trailing empty piece is not a line
Lines(s) ==
    LET parts == SplitNewline(s, <<>>)
    IN  IF parts[Len(parts)] = <<>> THEN SubSeq(parts, 1, Len(parts) - 1)
        ELSE parts

\* [String]::join
RECURSIVE Join(_, _)
Join(ss, sep) ==
    IF ss = <<>> THEN <<>>
    ELSE IF Len(ss) = 1 THEN ss[1]
    ELSE ss[1] \o sep \o Join(Tail(ss), sep)

RECURSIVE FilterNonEmpty(_)
FilterNonEmpty(ss) ==
    IF ss = <<>> THEN <<>>
    ELSE IF Head(ss) = <<>> THEN FilterNonEmpty(Tail(ss))
    ELSE <<Head(ss)>> \o FilterNonEmpty(Tail(ss))

Range(f) == {f[i] : i \in DOMAIN f}

None(v) == [some |-> FALSE, val |-> v]
Some(v) == [some |-> TRUE, val |-> v]
NoString == None(<<>>)

(***************************************************************************)
(* Settings                                                                *)
(***************************************************************************)
\* labels of the source: "黄金" (gold), "白银" (silver), "比特币" (bitcoin)
default_symbols ==
    << [code |-> <<"XAUUSD">>, label |-> <<"Gold">>],
       [code |-> <<"Silver">>, label |-> <<"SilverLabel">>],
       [code |-> <<"BTCUSDT">>, label |-> <<"Bitcoin">>] >>

\* labels of the source: "上证指数", "恒生指数", "纳斯达克指数"
default_stock_symbols ==
    << [code |-> <<"000001.SH">>, label |-> <<"SSE">>],
       [code |-> <<"HSI.HK">>, label |-> <<"HSI">>],
       [code |-> <<".IXIC.US">>, label |-> <<"Nasdaq">>] >>

\* impl Default for QuoteSettings
DefaultSettings ==
    [ token |-> <<>>,
      symbols |-> default_symbols,
      display_mode |-> "Rotate",
      api_type |-> "Commodity",
      refresh_seconds |-> default_refresh_seconds,
      rotate_seconds |-> default_rotate_seconds,
      fixed_symbol |-> NoString,
      use_system_proxy |-> FALSE ]

RECURSIVE MapTrim(_)
MapTrim(ss) ==
    IF ss = <<>> THEN <<>> ELSE <<Trim(Head(ss))>> \o MapTrim(Tail(ss))

\* faulty variant of parse_tokens: blank lines are kept
parse_tokens_KeepBlank(token) == MapTrim(Lines(token))

\* token.lines().map(trim).filter(non-empty).collect()
parse_tokens(token) == FilterNonEmpty(MapTrim(Lines(token)))

\* faulty variant of NormalizeSymbols: a blank label becomes the code as it
\* was submitted
RECURSIVE NormalizeSymbols_RawLabel(_, _)
NormalizeSymbols_RawLabel(input, seen) ==
    IF input = <<>> THEN <<>>
    ELSE LET symbol == Head(input)
             code == Trim(symbol.code)
             label == Trim(symbol.label)
         IN  IF code = <<>> \/ code \in seen
             THEN NormalizeSymbols_RawLabel(Tail(input), seen)
             ELSE << [code |-> code,
                      label |-> IF label = <<>> THEN symbol.code ELSE label] >>
                  \o NormalizeSymbols_RawLabel(Tail(input), seen \cup {code})

\* faulty variant of NormalizeSymbols: the codes seen are remembered as
\* they were submitted
RECURSIVE NormalizeSymbols_SeenRaw(_, _)
NormalizeSymbols_SeenRaw(input, seen) ==
    IF input = <<>> THEN <<>>
    ELSE LET symbol == Head(input)
             code == Trim(symbol.code)
             label == Trim(symbol.label)
         IN  IF code = <<>> \/ code \in seen
             THEN NormalizeSymbols_SeenRaw(Tail(input), seen)
             ELSE << [code |-> code,
                      label |-> IF label = <<>> THEN code ELSE label] >>
                  \o NormalizeSymbols_SeenRaw(Tail(input),
                                              seen \cup {symbol.code})

\* the loop of normalize_settings over settings.symbols: drop blank and
\* already seen codes, trim, default the label to the code
RECURSIVE NormalizeSymbols(_, _)
NormalizeSymbols(input, seen) ==
    IF input = <<>> THEN <<>>
    ELSE LET symbol == Head(input)
             code == Trim(symbol.code)
             label == Trim(symbol.label)
         IN  IF code = <<>> \/ code \in seen
             THEN NormalizeSymbols(Tail(input), seen)
             ELSE << [code |-> code,
                      label |-> IF label = <<>> THEN code ELSE label] >>
                  \o NormalizeSymbols(Tail(input), seen \cup {code})

\* u64::clamp
Clamp(v, lo, hi) == IF v < lo THEN lo ELSE IF v > hi THEN hi ELSE v

\* faulty variant of normalize_settings: a fixed_symbol that is not in the
\* list is kept
normalize_settings_KeepFixed(s) ==
    LET tokens == parse_tokens(s.token)
        kept == NormalizeSymbols(s.symbols, {})
        symbols == IF kept = <<>>
                   THEN IF s.api_type = "Commodity" THEN default_symbols
                        ELSE default_stock_symbols
                   ELSE kept
        fixed == Trim(IF s.fixed_symbol.some THEN s.fixed_symbol.val ELSE <<>>)
    IN  [ token |-> Join(tokens, <<"\n">>),
          symbols |-> symbols,
          display_mode |-> s.display_mode,
          api_type |-> s.api_type,
          refresh_seconds |-> default_refresh_seconds,
          rotate_seconds |-> Clamp(s.rotate_seconds, ROTATE_MIN_SECONDS,
                                   ROTATE_MAX_SECONDS),
          fixed_symbol |-> IF s.display_mode = "Fixed"
                           THEN Some(fixed)
                           ELSE s.fixed_symbol,
          use_system_proxy |-> s.use_system_proxy ]

normalize_settings(s) ==
    LET tokens == parse_tokens(s.token)
        kept == NormalizeSymbols(s.symbols, {})
        symbols == IF kept = <<>>
                   THEN IF s.api_type = "Commodity" THEN default_symbols
                        ELSE default_stock_symbols
                   ELSE kept
        fixed == Trim(IF s.fixed_symbol.some THEN s.fixed_symbol.val ELSE <<>>)
        exists == \E i \in DOMAIN symbols : symbols[i].code = fixed
    IN  [ token |-> Join(tokens, <<"\n">>),
          symbols |-> symbols,
          display_mode |-> s.display_mode,
          api_type |-> s.api_type,
          refresh_seconds |-> default_refresh_seconds,
          rotate_seconds |-> Clamp(s.rotate_seconds, ROTATE_MIN_SECONDS,
                                   ROTATE_MAX_SECONDS),
          fixed_symbol |-> IF s.display_mode = "Fixed"
                           THEN Some(IF exists THEN fixed
                                     ELSE symbols[1].code)
                           ELSE s.fixed_symbol,
          use_system_proxy |-> s.use_system_proxy ]

(***************************************************************************)
(* The quote request                                                       *)
(***************************************************************************)
IsDigit(c) == c \in {"0", "1", "2", "3", "4", "5", "6", "7", "8", "9"}

DigitValue(c) ==
    CASE c = "0" -> 0 [] c = "1" -> 1 [] c = "2" -> 2 [] c = "3" -> 3
      [] c = "4" -> 4 [] c = "5" -> 5 [] c = "6" -> 6 [] c = "7" -> 7
      [] c = "8" -> 8 [] c = "9" -> 9

DigitChar(d) == <<"0", "1", "2", "3", "4", "5", "6", "7", "8", "9">>[d + 1]

RECURSIVE DigitsValue(_, _)
DigitsValue(s, acc) ==
    IF s = <<>> THEN acc
    ELSE DigitsValue(Tail(s), acc * 10 + DigitValue(Head(s)))

\* str::parse::<u64> and str::parse::<f64> on the decimal texts the model
\* uses (one atom per character): Err unless every character is a digit
ParseNumber(s) ==
    IF s # <<>> /\ \A i \in DOMAIN s : IsDigit(s[i])
    THEN Some(DigitsValue(s, 0))
    ELSE None(0)

RECURSIVE Digits(_)
Digits(n) == IF n < 10 THEN <<DigitChar(n)>>
             ELSE Append(Digits(n \div 10), DigitChar(n % 10))

\* format!("{price:.2}") of a whole-number price
FormatPrice(price) == Digits(price) \o <<".", "0", "0">>

FetchErrorNew(detail) == [detail |-> detail, msg |-> NoString]
FetchErrorWithMsg(detail, msg) == [detail |-> detail, msg |-> msg]
NoFetchError == None(FetchErrorNew(<<>>))

\* the map built from payload.data.kline_list: the first candle of each
\* item whose three numbers parse; later items overwrite earlier ones
RECURSIVE QuoteMap(_, _)
QuoteMap(kline_list, map) ==
    IF kline_list = <<>> THEN map
    ELSE LET item == Head(kline_list)
             usable ==
                 /\ item.kline_data # <<>>
                 /\ ParseNumber(item.kline_data[1].close_price).some
                 /\ ParseNumber(item.kline_data[1].timestamp).some
                 /\ ParseNumber(item.kline_data[1].open_price).some
             entry ==
                 [ price |-> ParseNumber(item.kline_data[1].close_price).val,
                   ts |-> ParseNumber(item.kline_data[1].timestamp).val,
                   open |-> ParseNumber(item.kline_data[1].open_price).val ]
         IN  QuoteMap(Tail(kline_list),
                 IF usable
                 THEN [c \in DOMAIN map \cup {item.code} |->
                          IF c = item.code THEN entry ELSE map[c]]
                 ELSE map)

\* faulty variant of fetch_batch_quotes: an item without a candle whose
\* three numbers parse fails the fetch
fetch_batch_quotes_Strict(reply) ==
    IF /\ reply.sent
       /\ reply.payload.ret = RET_OK
       /\ \A k \in DOMAIN reply.payload.kline_list :
              reply.payload.kline_list[k].code
                  \in DOMAIN QuoteMap(<<reply.payload.kline_list[k]>>, <<>>)
    THEN [ok |-> TRUE, err |-> FetchErrorNew(<<>>),
          map |-> QuoteMap(reply.payload.kline_list, <<>>)]
    ELSE [ok |-> FALSE, err |-> FetchErrorNew(<<"parse", " ", "error">>),
          map |-> <<>>]

\* fetch_batch_quotes from the reply of send_batch_request on: a transport
\* error text, or the decoded BatchResp
fetch_batch_quotes(reply) ==
    IF ~reply.sent
    THEN [ok |-> FALSE, err |-> FetchErrorNew(reply.error), map |-> <<>>]
    ELSE IF reply.payload.ret # RET_OK
    THEN [ok |-> FALSE,
          err |-> FetchErrorWithMsg(
                      <<"api", " ", "ret=">> \o Digits(reply.payload.ret),
                      reply.payload.msg),
          map |-> <<>>]
    ELSE [ok |-> TRUE, err |-> FetchErrorNew(<<>>),
          map |-> QuoteMap(reply.payload.kline_list, <<>>)]

(***************************************************************************)
(* Proxy resolution                                                        *)
(*                                                                         *)
(* A platform is what the process finds around it at one attempt: scutil   *)
(* is the Option of the text `scutil --proxy` prints (None off macOS, when *)
(* the command cannot be run or exits with a failure), env maps each       *)
(* variable name to the Option of its value.  A ProxySetting is modelled   *)
(* by its url and source; its no_proxy list is left out.  In the scutil    *)
(* text a key is one atom, so starts_with(key) is a test of the first atom *)
(* of the line.                                                            *)
(***************************************************************************)
\* str::parse::<u8> and str::parse::<u16> on the decimal texts of the model
ParseUnsigned(s, max) ==
    IF ParseNumber(s).some /\ ParseNumber(s).val <= max
    THEN ParseNumber(s) ELSE None(0)

\* position of the first ":" of the line, 0 if there is none
RECURSIVE ColonAt(_, _)
ColonAt(line, i) ==
    IF i > Len(line) THEN 0
    ELSE IF line[i] = ":" THEN i
    ELSE ColonAt(line, i + 1)

\* the loop of scutil_value over text.lines()
RECURSIVE ScutilValueIn(_, _)
ScutilValueIn(lines, key) ==
    IF lines = <<>> THEN NoString
    ELSE LET line == Trim(Head(lines))
             colon == ColonAt(line, 1)
         IN  IF line # <<>> /\ line[1] = key /\ colon > 0
             THEN Some(Trim(SubSeq(line, colon + 1, Len(line))))
             ELSE ScutilValueIn(Tail(lines), key)

scutil_value(text, key) == ScutilValueIn(Lines(text), key)

scutil_proxy_url(text, enabled_key, host_key, port_key, scheme) ==
    LET enabled_text == scutil_value(text, enabled_key)
        enabled == ParseUnsigned(enabled_text.val, 255)
        host == scutil_value(text, host_key)
        port_text == scutil_value(text, port_key)
        port == ParseUnsigned(port_text.val, 65535)
    IN  IF ~enabled_text.some \/ ~enabled.some \/ enabled.val = 0
        THEN NoString
        ELSE IF ~host.some \/ host.val = <<>>
        THEN NoString
        ELSE IF ~port_text.some \/ ~port.some \/ port.val = 0
        THEN NoString
        ELSE Some(<<scheme, "://">> \o host.val \o <<":">> \o Digits(port.val))

\* Option::or_else
OrElse(first, second) == IF first.some THEN first ELSE second

\* faulty variant of parse_scutil_proxy: HTTP is asked before HTTPS
parse_scutil_proxy_HttpFirst(text) ==
    OrElse(scutil_proxy_url(text, "HTTPEnable", "HTTPProxy", "HTTPPort",
                            "http"),
    OrElse(scutil_proxy_url(text, "HTTPSEnable", "HTTPSProxy", "HTTPSPort",
                            "http"),
           scutil_proxy_url(text, "SOCKSEnable", "SOCKSProxy", "SOCKSPort",
                            "socks5")))

parse_scutil_proxy(text) ==
    OrElse(scutil_proxy_url(text, "HTTPSEnable", "HTTPSProxy", "HTTPSPort",
                            "http"),
    OrElse(scutil_proxy_url(text, "HTTPEnable", "HTTPProxy", "HTTPPort",
                            "http"),
           scutil_proxy_url(text, "SOCKSEnable", "SOCKSProxy", "SOCKSPort",
                            "socks5")))

\* macos_system_proxy_url, without the no_proxy list
macos_system_proxy_url(platform) ==
    IF platform.scutil.some THEN parse_scutil_proxy(platform.scutil.val)
    ELSE NoString

\* const KEYS of env_proxy_setting
KEYS == <<"HTTPS_PROXY", "https_proxy", "HTTP_PROXY", "http_proxy",
          "ALL_PROXY", "all_proxy">>

\* the loop of env_proxy_setting over KEYS, from the i-th key on
RECURSIVE EnvProxyFrom(_, _)
EnvProxyFrom(env, i) ==
    IF i > Len(KEYS) THEN NoString
    ELSE IF env[KEYS[i]].some /\ Trim(env[KEYS[i]].val) # <<>>
    THEN Some(Trim(env[KEYS[i]].val))
    ELSE EnvProxyFrom(env, i + 1)

env_proxy_setting(env) == EnvProxyFrom(env, 1)

NoProxySetting == None([url |-> <<>>, source |-> ""])

system_proxy_setting(platform) ==
    IF macos_system_proxy_url(platform).some
    THEN Some([url |-> macos_system_proxy_url(platform).val,
               source |-> "system"])
    ELSE IF env_proxy_setting(platform.env).some
    THEN Some([url |-> env_proxy_setting(platform.env).val, source |-> "env"])
    ELSE NoProxySetting

\* let proxy_setting = ... of fetch_batch_quotes
ProxySettingFor(use_system_proxy, platform) ==
    IF use_system_proxy THEN system_proxy_setting(platform)
    ELSE NoProxySetting

(***************************************************************************)
(* Display                                                                 *)
(***************************************************************************)
\* the trend glyphs of the source: "▲", "▼", "—"
TREND_UP == "UP"
TREND_DOWN == "DOWN"
TREND_FLAT == "FLAT"
\* the red dot "🔴" of error_title
RED_DOT == "(red)"
\* "No symbols" / "请在设置中添加品类"
TITLE_NO_SYMBOLS == <<"No", " ", "symbols">>
TOOLTIP_NO_SYMBOLS == <<"add-symbols-in-settings">>
\* "设置 Token" / "请先在设置中填写 Alltick Token"
TITLE_SET_TOKEN == <<"set", " ", "Token">>
TOOLTIP_SET_TOKEN == <<"fill-in-Alltick", " ", "Token">>
\* TrayIconBuilder .title("盯价助手") .tooltip("请先进行必要的设置")
TITLE_INITIAL == <<"price-watch">>
TOOLTIP_INITIAL == <<"do-the-settings-first">>

\* FetchError::tooltip_lines; "错误: " is written "error:", " "
tooltip_lines(err) ==
    <<(<<"error:", " ">> \o err.detail)>>
    \o (IF err.msg.some /\ Trim(err.msg.val) # <<>>
        THEN <<(<<"msg:", " ">> \o Trim(err.msg.val))>>
        ELSE <<>>)

\* faulty variant of error_title: the red dot is missing
error_title_Plain(base) == Trim(base)

error_title(base) ==
    LET title == Trim(base)
    IN  IF title = <<>> THEN <<RED_DOT>> ELSE <<RED_DOT, " ">> \o title

SymbolName(symbol) ==
    IF symbol.label = <<>> THEN symbol.code ELSE symbol.label

\* price and trend are Option values
format_price_line(symbol, price, trend) ==
    IF trend.some /\ price.some
    THEN <<trend.val, " ">> \o SymbolName(symbol) \o <<" ">>
         \o FormatPrice(price.val)
    ELSE SymbolName(symbol) \o <<" ", "--">>

format_title(symbol, price, trend) ==
    IF price.some
    THEN SymbolName(symbol) \o <<" ">> \o FormatPrice(price.val)
    ELSE SymbolName(symbol) \o <<" ", "--">>

\* HashMap::get
Get(map, key, default) ==
    IF key \in DOMAIN map THEN Some(map[key]) ELSE None(default)

\* HashMap::insert
Insert(map, key, value) ==
    [k \in DOMAIN map \cup {key} |-> IF k = key THEN value ELSE map[k]]

\* index (from 1) of the first symbol with that code, 0 if there is none
RECURSIVE FindCode(_, _, _)
FindCode(symbols, code, i) ==
    IF i > Len(symbols) THEN 0
    ELSE IF symbols[i].code = code THEN i
    ELSE FindCode(symbols, code, i + 1)

\* pick_display_symbol: Option of a symbol; rotate_index counts from 0
pick_display_symbol(s, rotate_index) ==
    LET none == None([code |-> <<>>, label |-> <<>>])
    IN  IF s.symbols = <<>> THEN none
        ELSE IF s.display_mode = "Rotate"
        THEN IF rotate_index < Len(s.symbols)
             THEN Some(s.symbols[rotate_index + 1]) ELSE none
        ELSE IF s.fixed_symbol.some
        THEN IF FindCode(s.symbols, s.fixed_symbol.val, 1) > 0
             THEN Some(s.symbols[FindCode(s.symbols, s.fixed_symbol.val, 1)])
             ELSE none
        ELSE Some(s.symbols[1])

IconOf(trend) ==
    IF trend.some /\ trend.val = TREND_UP THEN "up"
    ELSE IF trend.some /\ trend.val = TREND_DOWN THEN "down"
    ELSE "pending"

(***************************************************************************)
(* Inputs of the model                                                     *)
(***************************************************************************)
Sym(code, label) == [code |-> code, label |-> label]

RawSettings(token, symbols, mode, api, rotate, fixed) ==
    [ token |-> token, symbols |-> symbols, display_mode |-> mode,
      api_type |-> api, refresh_seconds |-> default_refresh_seconds,
      rotate_seconds |-> rotate, fixed_symbol |-> fixed,
      use_system_proxy |-> FALSE ]

\* Settings values as the settings window may submit them or the settings
\* file may hold them: untrimmed, with blank lines, duplicates and
\* out-of-range intervals.
\*
\* Credential scenarios: one symbol shown in Fixed mode, the token text
\* varies between three, two and no credentials.
CredentialInputs ==
    { RawSettings(<<"A", "\n", " ", "\n", " ", "B", "\n", "C">>,
                  <<Sym(<<"XAUUSD">>, <<"Au">>)>>,
                  "Fixed", "Commodity", 0, NoString),
      RawSettings(<<"A", "\n", "B">>,
                  <<Sym(<<"XAUUSD">>, <<"Au">>)>>,
                  "Fixed", "Commodity", 10, Some(<<"nope">>)),
      RawSettings(<<" ", "\n", " ">>,
                  <<Sym(<<"XAUUSD">>, <<"Au">>)>>,
                  "Fixed", "Commodity", 5000, Some(<<" ", "XAUUSD">>)) }

\* Display scenarios: the symbol list and the display mode vary, the token
\* text is one credential or none.
DisplayInputs ==
    { RawSettings(<<"A">>, <<>>, "Rotate", "Commodity", 0, NoString),
      RawSettings(<<>>,
                  <<Sym(<<" ", "Silver", " ">>, <<"Ag">>),
                    Sym(<<"Silver">>, <<"dup">>),
                    Sym(<<" ">>, <<"blank">>),
                    Sym(<<"XAUUSD">>, <<" ">>)>>,
                  "Rotate", "Commodity", 4, Some(<<"Silver">>)),
      RawSettings(<<"A">>, <<Sym(<<"XAUUSD">>, <<"Au">>)>>,
                  "Fixed", "Commodity", 10, Some(<<"nope">>)) }

\* Rotation scenarios: two symbols, shown in rotation every 4 seconds or
\* fixed on the second, on a code that is not in the list, or on none.
RotationInputs ==
    { RawSettings(<<"A">>,
                  <<Sym(<<"XAUUSD">>, <<"Au">>), Sym(<<"Silver">>, <<"Ag">>)>>,
                  "Rotate", "Commodity", 4, Some(<<"nope">>)),
      RawSettings(<<"A">>,
                  <<Sym(<<"XAUUSD">>, <<"Au">>), Sym(<<"Silver">>, <<"Ag">>)>>,
                  "Fixed", "Commodity", 4, Some(<<" ", "Silver", " ">>)),
      RawSettings(<<"A">>,
                  <<Sym(<<"XAUUSD">>, <<"Au">>), Sym(<<"Silver">>, <<"Ag">>)>>,
                  "Fixed", "Commodity", 4, Some(<<"nope">>)),
      RawSettings(<<"A">>,
                  <<Sym(<<"XAUUSD">>, <<"Au">>), Sym(<<"Silver">>, <<"Ag">>)>>,
                  "Fixed", "Commodity", 4, NoString) }

\* Recovery scenarios: one symbol in Fixed mode, two credentials or none.
RecoveryInputs ==
    { RawSettings(<<"A", "\n", "B">>,
                  <<Sym(<<"XAUUSD">>, <<"Au">>)>>,
                  "Fixed", "Commodity", 10, NoString),
      RawSettings(<<>>,
                  <<Sym(<<"XAUUSD">>, <<"Au">>)>>,
                  "Fixed", "Commodity", 10, NoString) }

\* Backoff scenarios: two symbols shown in rotation every 4 seconds, one
\* credential or none.
BackoffInputs ==
    { RawSettings(<<"A">>,
                  <<Sym(<<"XAUUSD">>, <<"Au">>), Sym(<<"Silver">>, <<"Ag">>)>>,
                  "Rotate", "Commodity", 4, NoString),
      RawSettings(<<" ", "\n">>,
                  <<Sym(<<"XAUUSD">>, <<"Au">>), Sym(<<"Silver">>, <<"Ag">>)>>,
                  "Rotate", "Commodity", 4, NoString) }

\* Parsing scenarios: two credentials and two symbols, Fixed on the first
\* or shown in rotation.
ParsingInputs ==
    { RawSettings(<<"A", "\n", "B">>,
                  <<Sym(<<"XAUUSD">>, <<"Au">>), Sym(<<"Silver">>, <<"Ag">>)>>,
                  "Fixed", "Commodity", 10, NoString),
      RawSettings(<<"A", "\n", "B">>,
                  <<Sym(<<"XAUUSD">>, <<"Au">>), Sym(<<"Silver">>, <<"Ag">>)>>,
                  "Rotate", "Commodity", 10, NoString) }

\* Settings scenarios: every combination of the token texts, symbol lists,
\* modes, categories, intervals and fixed symbols below, as the settings
\* window may submit them or the settings file may hold them.
TokenTexts ==
    { <<>>, <<" ", "A", "\n", "\n", " ", "B", " ">> }

SymbolLists ==
    { <<>>,
      <<Sym(<<" ", "Silver", " ">>, <<"Ag">>), Sym(<<"Silver">>, <<"dup">>),
        Sym(<<" ">>, <<"blank">>), Sym(<<"XAUUSD">>, <<" ">>)>>,
      <<Sym(<<" ", "BTCUSDT">>, <<>>), Sym(<<"silver">>, <<"low">>),
        Sym(<<"Silver">>, <<" ", "Ag", " ">>),
        Sym(<<"BTCUSDT", " ">>, <<"again">>)>>,
      <<Sym(<<" ">>, <<"blank">>), Sym(<<>>, <<"empty">>)>> }

RotateChoices == {0, 2, 10, 3601}

RefreshChoices == {1, default_refresh_seconds}

FixedChoices == {NoString, Some(<<" ", "Silver", " ">>), Some(<<"nope">>)}

SettingsInputs ==
    { [RawSettings(token, symbols, mode, api, rotate, fixed)
          EXCEPT !.refresh_seconds = refresh] :
        token \in TokenTexts, symbols \in SymbolLists,
        mode \in {"Rotate", "Fixed"}, api \in {"Commodity", "Stock"},
        rotate \in RotateChoices, fixed \in FixedChoices,
        refresh \in RefreshChoices }

\* Submission scenarios: values out of range or incomplete, one credential
SubmissionInputs ==
    { [RawSettings(<<"A">>, <<>>, "Rotate", "Stock", 0, NoString)
          EXCEPT !.refresh_seconds = 1],
      [RawSettings(<<"A">>,
                   <<Sym(<<" ", "Silver", " ">>, <<"Ag">>),
                     Sym(<<"Silver">>, <<"dup">>),
                     Sym(<<" ">>, <<"blank">>),
                     Sym(<<"XAUUSD">>, <<" ">>)>>,
                   "Fixed", "Commodity", 3601, Some(<<" ", "nope", " ">>))
          EXCEPT !.refresh_seconds = 0],
      RawSettings(<<"A">>, <<Sym(<<" ">>, <<"blank">>)>>,
                  "Fixed", "Commodity", 5000, Some(<<" ", "Silver", " ">>)),
      RawSettings(<<"A">>,
                  <<Sym(<<"XAUUSD">>, <<"Au">>), Sym(<<"XAUUSD">>, <<"Au">>)>>,
                  "Rotate", "Commodity", 2, NoString) }

\* Proxy scenarios: one credential and one symbol, the system proxy used
\* or not
ProxyInputs ==
    { [RawSettings(<<"A">>, <<Sym(<<"XAUUSD">>, <<"Au">>)>>,
                   "Fixed", "Commodity", 10, NoString)
          EXCEPT !.use_system_proxy = use] : use \in BOOLEAN }

\* what the system settings hold for one protocol
ProtocolStates == {"absent", "disabled", "nohost", "noport", "good"}

ScutilLine(key, value) == <<" ", key, " ", ":", " ">> \o value

\* the lines `scutil --proxy` prints for one protocol
ProtocolLines(enabled_key, host_key, port_key, host, port, state) ==
    IF state = "absent" THEN <<>>
    ELSE << ScutilLine(enabled_key,
                       IF state = "disabled" THEN <<"0">> ELSE <<"1">>),
            ScutilLine(port_key, IF state = "noport" THEN <<"0">> ELSE port),
            ScutilLine(host_key, IF state = "nohost" THEN <<>> ELSE host) >>

\* the text `scutil --proxy` prints, keys in alphabetical order
ScutilText(https, http, socks) ==
    Join(<< <<"<dictionary>", " ", "{">> >>
         \o ProtocolLines("HTTPEnable", "HTTPProxy", "HTTPPort",
                          <<"proxy.http">>, <<"8", "0">>, http)
         \o ProtocolLines("HTTPSEnable", "HTTPSProxy", "HTTPSPort",
                          <<"proxy.https">>, <<"0", "4", "4", "3">>, https)
         \o ProtocolLines("SOCKSEnable", "SOCKSProxy", "SOCKSPort",
                          <<"proxy.socks">>, <<"9">>, socks)
         \o << <<"}">> >>,
         <<"\n">>)

NoEnvironment == [key \in Range(KEYS) |-> NoString]

\* the proxy variables of the process
Environments ==
    { NoEnvironment,
      [NoEnvironment EXCEPT !["all_proxy"] = Some(<<"socks5://p6">>)],
      [NoEnvironment EXCEPT !["HTTPS_PROXY"] = Some(<<" ">>),
                            !["HTTP_PROXY"] = Some(<<" ", "http://p3", " ">>),
                            !["http_proxy"] = Some(<<"http://p4">>)],
      [NoEnvironment EXCEPT !["HTTPS_PROXY"] = Some(<<"http://p1">>),
                            !["https_proxy"] = Some(<<"http://p2">>),
                            !["ALL_PROXY"] = Some(<<"socks5://p5">>)],
      [NoEnvironment EXCEPT !["https_proxy"] = Some(<<"http://p2", "\n">>),
                            !["ALL_PROXY"] = Some(<<>>)] }

\* a platform without native proxy configuration
PlainPlatform(env) ==
    [scutil |-> NoString, env |-> env,
     https |-> "absent", http |-> "absent", socks |-> "absent"]

\* macOS with the given state of the three protocols
MacPlatform(env, https, http, socks) ==
    [scutil |-> Some(ScutilText(https, http, socks)), env |-> env,
     https |-> https, http |-> http, socks |-> socks]

Platforms ==
    {PlainPlatform(env) : env \in Environments}
    \cup {MacPlatform(env, https, http, socks) :
            env \in Environments, https \in ProtocolStates,
            http \in ProtocolStates, socks \in {"disabled", "good"}}

\* the decimal texts a candle may carry
Candle(close, open) ==
    [timestamp |-> <<"1">>, open_price |-> open, close_price |-> close]

ItemOf(code, choice) ==
    [ code |-> code,
      kline_data |->
        CASE choice = "empty" -> <<>>
          [] choice = "unparsable" -> <<Candle(<<"n", "a">>, <<"1", "0", "0">>)>>
          [] choice = "noopen" -> <<Candle(<<"1", "0", "5">>, <<"-">>)>>
          [] choice = "up" -> <<Candle(<<"1", "0", "5">>, <<"1", "0", "0">>)>>
          [] choice = "down" -> <<Candle(<<"9", "5">>, <<"1", "0", "0">>)>>
          [] OTHER -> <<Candle(<<"1", "0", "0">>, <<"1", "0", "0">>)>> ]

\* the kline_list of an answer of the given shape: "up", "down", "flat",
\* "unparsable", "empty" give every requested code such an item; "first"
\* answers the first code only (up), "rest" all but the first (down),
\* "none" answers no code, "mixed" answers the first code (up) and gives
\* the others a candle whose open price is not a number
RECURSIVE KlineList(_, _, _)
KlineList(codes, shape, i) ==
    IF i > Len(codes) THEN <<>>
    ELSE (CASE shape = "none" -> <<>>
            [] shape = "first" ->
                 IF i = 1 THEN <<ItemOf(codes[i], "up")>> ELSE <<>>
            [] shape = "rest" ->
                 IF i = 1 THEN <<>> ELSE <<ItemOf(codes[i], "down")>>
            [] shape = "mixed" ->
                 <<ItemOf(codes[i], IF i = 1 THEN "up" ELSE "noopen")>>
            [] OTHER -> <<ItemOf(codes[i], shape)>>)
         \o KlineList(codes, shape, i + 1)

Payload(ret, msg, kline_list) ==
    [ret |-> ret, msg |-> msg, kline_list |-> kline_list]

SentReply(payload) == [sent |-> TRUE, error |-> <<>>, payload |-> payload]
FailedReply(error) ==
    [sent |-> FALSE, error |-> error, payload |-> Payload(0, NoString, <<>>)]

\* the reply of send_batch_request of the given shape to a request for
\* these codes: a transport failure, an api-level refusal with or without
\* msg, or ret = 200 with a kline_list
ReplyOf(codes, shape) ==
    CASE shape = "timeout" ->
           FailedReply(<<"request", " ", "failed", " ", "(timeout)">>)
      [] shape = "denied" ->
           SentReply(Payload(401, Some(<<" ", "token", " ", "invalid">>), <<>>))
      [] shape = "busy" ->
           SentReply(Payload(500, NoString, <<>>))
      [] OTHER ->
           SentReply(Payload(RET_OK, NoString, KlineList(codes, shape, 1)))

CredentialShapes == {"timeout", "denied", "up"}
DisplayShapes == {"up", "flat", "rest", "none"}
RotationShapes == {"up", "timeout"}
RecoveryShapes == {"up", "busy", "unparsable"}
ParsingShapes == {"unparsable", "empty", "mixed", "busy"}
SubmissionShapes == {"up"}
ProxyShapes == {"up"}
BackoffShapes == {"up", "busy"}

\* normalize_settings tabulated over the inputs of the loop scenarios
Normalized == [x \in CredentialInputs \cup DisplayInputs \cup RotationInputs
                        \cup RecoveryInputs \cup ParsingInputs
                        \cup SubmissionInputs \cup ProxyInputs
                        \cup BackoffInputs
                        \cup {DefaultSettings}
                 |-> normalize_settings(x)]

\* faulty variant of NormalForm: the value is stored as submitted
NormalForm_Raw(x) == x

\* the value normalize_settings returns for x
NormalForm(x) ==
    IF x \in DOMAIN Normalized THEN Normalized[x] ELSE normalize_settings(x)

(***************************************************************************)
(* State                                                                   *)
(***************************************************************************)
VARIABLES
    settings_handle,        \* AppState.settings, the shared cell
    settings_lock,          \* the Mutex around it: "free" or "loop"
    settings,               \* the snapshot cloned at the top of the iteration
    pc,                     \* "top", "locked" (the loop holds the Mutex),
                            \* "fetch" (awaiting an attempt), "sleep"
    last_prices, trends, rotate_index, last_title, last_error,
    error_backoff_seconds, token_index,
    next_refresh, next_rotate,      \* offsets from `now`
    elapsed,                \* Instant::now() - now
    cursor, attempt, last_attempt_error,
    sleep_for,              \* the duration handed to tokio::time::sleep
    tray_title, tray_tooltip, tray_icon,
    \* observations of the run, read by the properties only
    h_kind,                 \* what the current / latest iteration did
    h_attempts,             \* the attempts of the iteration: index and reply
    h_before,               \* backoff and indices when the iteration began
    h_prev,                 \* the latest finished refresh with credentials
    h_last_ok,              \* index of the latest attempt that succeeded
    h_fails,                \* refreshes exhausted since the latest success
    h_rotate_used,          \* rotate_index values read to select or advance
    h_step,                 \* the locals as the refresh step left them,
                            \* before the rotation step of the iteration
    h_advanced,             \* the rotation step of the iteration advanced
    h_since,                \* seconds since the loop started or last advanced
    h_gap,                  \* h_since at the advance of the iteration
    h_late,                 \* the sleep before the iteration was suspended
    proxy_setting,          \* the proxy_setting of the latest attempt of
                            \* the iteration
    h_platform              \* the platform that attempt found

loopvars == <<last_prices, trends, rotate_index, last_title, last_error,
              error_backoff_seconds, token_index, next_refresh, next_rotate,
              tray_title, tray_tooltip, tray_icon, h_rotate_used,
              h_advanced>>

fetchvars == <<cursor, attempt, last_attempt_error>>

histvars == <<h_kind, h_attempts, h_before, h_prev, h_last_ok, h_fails>>

clockvars == <<h_step, h_since, h_gap, h_late>>

proxyvars == <<proxy_setting, h_platform>>

vars == <<settings_handle, settings_lock, settings, pc, loopvars, elapsed,
          fetchvars, sleep_for, histvars, clockvars, proxyvars>>

\* the loop's locals as one record, threaded through the steps below
Locals ==
    [ last_prices |-> last_prices, trends |-> trends,
      rotate_index |-> rotate_index, last_title |-> last_title,
      last_error |-> last_error,
      error_backoff_seconds |-> error_backoff_seconds,
      token_index |-> token_index,
      next_refresh |-> next_refresh, next_rotate |-> next_rotate,
      tray_title |-> tray_title, tray_tooltip |-> tray_tooltip,
      tray_icon |-> tray_icon, used |-> h_rotate_used,
      advanced |-> h_advanced ]

Commit(r) ==
    /\ last_prices' = r.last_prices
    /\ trends' = r.trends
    /\ rotate_index' = r.rotate_index
    /\ last_title' = r.last_title
    /\ last_error' = r.last_error
    /\ error_backoff_seconds' = r.error_backoff_seconds
    /\ token_index' = r.token_index
    /\ next_refresh' = r.next_refresh
    /\ next_rotate' = r.next_rotate
    /\ tray_title' = r.tray_title
    /\ tray_tooltip' = r.tray_tooltip
    /\ tray_icon' = r.tray_icon
    /\ h_rotate_used' = r.used
    /\ h_advanced' = r.advanced

(***************************************************************************)
(* Steps of one iteration of the loop of start_polling                     *)
(***************************************************************************)
\* faulty variant of ClampRotateIndex: the reset is missing
ClampRotateIndex_Missing(index, len) == index

\* if rotate_index >= settings.symbols.len() { rotate_index = 0 }
ClampRotateIndex(index, len) == IF index >= len THEN 0 ELSE index

\* if token_index >= tokens.len() { token_index = 0 }
ClampTokenIndex(index, len) == IF index >= len THEN 0 ELSE index

\* faulty variant of NextCursor: the cursor does not wrap
NextCursor_NoWrap(c, len) == c + 1

\* cursor = (cursor + 1) % tokens.len()
NextCursor(c, len) == (c + 1) % len

\* faulty variant of RecordAttemptError: the first error is kept
RecordAttemptError_First(previous, err) ==
    IF previous.some THEN previous ELSE Some(err)

\* last_attempt_error = Some(err)
RecordAttemptError(previous, err) == Some(err)

\* faulty variant of PinTokenIndex: the index is not pinned
PinTokenIndex_Missing(index, c) == index

\* token_index = cursor, on the attempt that succeeds
PinTokenIndex(index, c) == c

\* faulty variant of TokenIndexAfterFailure: the index is left alone
TokenIndexAfterFailure_Kept(index) == index

\* token_index = 0, when every credential failed
TokenIndexAfterFailure(index) == 0

\* faulty variant of NextBackoff: the doubling is not capped
NextBackoff_Uncapped(backoff, base) ==
    IF backoff = 0 THEN Max(base * 3, base) ELSE backoff * 2

\* the failure branch's error_backoff_seconds
NextBackoff(backoff, base) ==
    LET stepped == IF backoff = 0 THEN Max(base * 3, base)
                   ELSE Min(backoff * 2, ERROR_BACKOFF_MAX_SECONDS)
    IN  IF stepped < base THEN base ELSE stepped

\* faulty variant of RefreshDelay: the backoff is ignored
RefreshDelay_BaseOnly(backoff, base) == base

\* the seconds from Instant::now() to the next refresh
RefreshDelay(backoff, base) ==
    IF backoff > 0 THEN Min(backoff, ERROR_BACKOFF_MAX_SECONDS) ELSE base

\* faulty variant of TrendOf: up and down are exchanged
TrendOf_Inverted(price, open) ==
    IF price > open THEN TREND_DOWN
    ELSE IF price < open THEN TREND_UP
    ELSE TREND_FLAT

TrendOf(price, open) ==
    IF price > open THEN TREND_UP
    ELSE IF price < open THEN TREND_DOWN
    ELSE TREND_FLAT

\* the success branch's loop over settings.symbols
RECURSIVE StoreQuotes(_, _, _)
StoreQuotes(symbols, map, acc) ==
    IF symbols = <<>> THEN acc
    ELSE LET code == Head(symbols).code
         IN  StoreQuotes(Tail(symbols), map,
                 IF code \in DOMAIN map
                 THEN [ last_prices |->
                            Insert(acc.last_prices, code, map[code].price),
                        trends |->
                            Insert(acc.trends, code,
                                   TrendOf(map[code].price, map[code].open)),
                        success |-> acc.success + 1 ]
                 ELSE [acc EXCEPT !.trends = Insert(@, code, TREND_FLAT)])

\* the failure branch's loop over settings.symbols
RECURSIVE MarkUnknown(_, _)
MarkUnknown(symbols, tr) ==
    IF symbols = <<>> THEN tr
    ELSE MarkUnknown(Tail(symbols), Insert(tr, Head(symbols).code, TREND_FLAT))

RECURSIVE PriceLines(_, _, _)
PriceLines(symbols, prices, tr) ==
    IF symbols = <<>> THEN <<>>
    ELSE <<format_price_line(Head(symbols),
                             Get(prices, Head(symbols).code, 0),
                             Get(tr, Head(symbols).code, ""))>>
         \o PriceLines(Tail(symbols), prices, tr)

TooltipText(r, s) ==
    Join((IF r.last_error.some THEN tooltip_lines(r.last_error.val) ELSE <<>>)
         \o PriceLines(s.symbols, r.last_prices, r.trends),
         <<"\n">>)

\* title and icon of the selected symbol, from the caches
ShowSelected(r, s) ==
    LET picked == pick_display_symbol(s, r.rotate_index)
        trend == Get(r.trends, picked.val.code, "")
        price == Get(r.last_prices, picked.val.code, 0)
        title == format_title(picked.val, price, trend)
        seen == IF s.display_mode = "Rotate" /\ s.symbols # <<>>
                THEN r.used \cup {r.rotate_index} ELSE r.used
    IN  IF picked.some
        THEN [r EXCEPT !.last_title = title,
                       !.tray_title = IF r.last_error.some
                                      THEN error_title(title) ELSE title,
                       !.tray_icon = IconOf(trend),
                       !.used = seen]
        ELSE [r EXCEPT !.used = seen]

\* faulty variant of ShowSetToken: the error of an earlier refresh is
\* dropped
ShowSetToken_Forgetting(r) ==
    [r EXCEPT !.tray_title = TITLE_SET_TOKEN,
              !.tray_tooltip = TOOLTIP_SET_TOKEN,
              !.tray_icon = "pending",
              !.last_error = NoFetchError]

\* the branch for an empty token list
ShowSetToken(r) ==
    [r EXCEPT !.tray_title = TITLE_SET_TOKEN,
              !.tray_tooltip = TOOLTIP_SET_TOKEN,
              !.tray_icon = "pending"]

\* faulty variant of FailureBranch: the cached prices are dropped as well
FailureBranch_Blanking(r, s, err) ==
    [r EXCEPT !.last_error = err,
              !.token_index = TokenIndexAfterFailure(r.token_index),
              !.error_backoff_seconds =
                  NextBackoff(r.error_backoff_seconds, s.refresh_seconds),
              !.trends = MarkUnknown(s.symbols, r.trends),
              !.last_prices = <<>>]

\* the branch taken when every credential failed
FailureBranch(r, s, err) ==
    [r EXCEPT !.last_error = err,
              !.token_index = TokenIndexAfterFailure(r.token_index),
              !.error_backoff_seconds =
                  NextBackoff(r.error_backoff_seconds, s.refresh_seconds),
              !.trends = MarkUnknown(s.symbols, r.trends)]

\* after the attempts: got is the Option of the map of the attempt that
\* succeeded, c its cursor, err the Option of the last error
AfterAttempts(r, s, got, c, err) ==
    LET stored == StoreQuotes(s.symbols, got.val,
                      [last_prices |-> r.last_prices, trends |-> r.trends,
                       success |-> 0])
        r1 == IF got.some
              THEN [r EXCEPT !.token_index = PinTokenIndex(r.token_index, c),
                             !.last_error = NoFetchError,
                             !.error_backoff_seconds = 0,
                             !.last_prices = stored.last_prices,
                             !.trends = stored.trends]
              ELSE FailureBranch(r, s, err)
        success == IF got.some THEN stored.success ELSE 0
        r2 == [r1 EXCEPT !.tray_tooltip = TooltipText(r1, s)]
    IN  IF success = 0
        THEN IF r2.last_error.some
             THEN [r2 EXCEPT !.tray_title = error_title(r2.last_title),
                             !.tray_icon = "pending"]
             ELSE IF r2.last_title # <<>> /\ r2.last_title[Len(r2.last_title)] # "*"
             THEN [r2 EXCEPT !.last_title = Append(@, "*"),
                             !.tray_title = Append(r2.last_title, "*"),
                             !.tray_icon = "pending"]
             ELSE [r2 EXCEPT !.tray_icon = "pending"]
        ELSE ShowSelected(r2, s)

\* faulty variant of Schedule: the deadline that passed is left in place
Schedule_Queued(r, s, el) == r

\* next_refresh = Instant::now() + refresh_seconds
Schedule(r, s, el) ==
    [r EXCEPT !.next_refresh =
        el + RefreshDelay(r.error_backoff_seconds, s.refresh_seconds)]

\* faulty variant of RotateStep: the advance makes the refresh due
RotateStep_Refreshing(r, s) ==
    IF s.display_mode = "Rotate" /\ r.next_rotate = 0
    THEN ShowSelected(
             [r EXCEPT !.next_rotate = s.rotate_seconds,
                       !.rotate_index = (r.rotate_index + 1) % Len(s.symbols),
                       !.used = @ \cup {r.rotate_index},
                       !.advanced = TRUE,
                       !.next_refresh = 0],
             s)
    ELSE r

\* the rotation step; now >= next_rotate is offset 0
RotateStep(r, s) ==
    IF s.display_mode = "Rotate" /\ r.next_rotate = 0
    THEN ShowSelected(
             [r EXCEPT !.next_rotate = s.rotate_seconds,
                       !.rotate_index = (r.rotate_index + 1) % Len(s.symbols),
                       !.used = @ \cup {r.rotate_index},
                       !.advanced = TRUE],
             s)
    ELSE r

\* faulty variant of SleepFor: next_rotate is considered in every mode
SleepFor_AnyMode(r, s, el) ==
    LET next_tick == IF r.next_rotate < r.next_refresh
                     THEN r.next_rotate ELSE r.next_refresh
        d == IF next_tick > el THEN next_tick - el ELSE 0
    IN  IF d = 0 THEN 1 ELSE d

\* faulty variant of SleepFor: the sleep has no duration
SleepFor_Zero(r, s, el) == 0

\* the duration of the sleep that ends the iteration
SleepFor(r, s, el) ==
    LET next_tick == IF s.display_mode = "Rotate"
                        /\ r.next_rotate < r.next_refresh
                     THEN r.next_rotate ELSE r.next_refresh
        d == IF next_tick > el THEN next_tick - el ELSE 0
    IN  IF d = 0 THEN 1 ELSE d

(***************************************************************************)
(* Initial state: run() loads the settings, builds the tray and spawns the  *)
(* loop                                                                    *)
(***************************************************************************)
\* a sleep that is suspended (machine sleep) past every deadline
SuspendSeconds == ROTATE_MAX_SECONDS + ERROR_BACKOFF_MAX_SECONDS

NothingBefore == [backoff |-> 0, token |-> 0, rotate |-> 0]

NoRefreshYet == [kind |-> "none", tokens |-> <<>>, index |-> 0]

\* the locals of start_polling before the loop, the tray as run() built it
InitialLocals ==
    [ last_prices |-> <<>>, trends |-> <<>>, rotate_index |-> 0,
      last_title |-> <<>>, last_error |-> NoFetchError,
      error_backoff_seconds |-> 0, token_index |-> 0,
      next_refresh |-> 0, next_rotate |-> 0,
      tray_title |-> TITLE_INITIAL, tray_tooltip |-> TOOLTIP_INITIAL,
      tray_icon |-> "none", used |-> {}, advanced |-> FALSE ]

\* load_settings: the file's value, or the default when there is none
InitWith(inputs) ==
    /\ settings_handle \in {NormalForm(x) : x \in inputs}
    /\ settings_lock = "free"
    /\ settings = settings_handle
    /\ pc = "top"
    /\ last_prices = <<>>
    /\ trends = <<>>
    /\ rotate_index = 0
    /\ last_title = <<>>
    /\ last_error = NoFetchError
    /\ error_backoff_seconds = 0
    /\ token_index = 0
    /\ next_refresh = 0
    /\ next_rotate = 0
    /\ elapsed = 0
    /\ cursor = 0
    /\ attempt = 0
    /\ last_attempt_error = NoFetchError
    /\ sleep_for = 0
    /\ tray_title = TITLE_INITIAL
    /\ tray_tooltip = TOOLTIP_INITIAL
    /\ tray_icon = "none"
    /\ h_kind = "idle"
    /\ h_attempts = <<>>
    /\ h_before = NothingBefore
    /\ h_last_ok = 0
    /\ h_prev = NoRefreshYet
    /\ h_fails = 0
    /\ h_rotate_used = {}
    /\ h_step = InitialLocals
    /\ h_advanced = FALSE
    /\ h_since = 0
    /\ h_gap = 0
    /\ h_late = FALSE
    /\ proxy_setting = NoProxySetting
    /\ h_platform = PlainPlatform(NoEnvironment)

(***************************************************************************)
(* Actions                                                                 *)
(***************************************************************************)
\* save_settings_command: normalise, write the file, replace the shared
\* value.  When the write fails the command returns before the value is
\* replaced and no variable changes (a stuttering step).  The Mutex is
\* taken for the assignment alone, which waits while the loop holds it.
save_settings_command(inputs) ==
    /\ settings_lock = "free"
    /\ \E input \in inputs :
        /\ settings_handle' = NormalForm(input)
        /\ UNCHANGED <<settings_lock, settings, pc, loopvars, elapsed,
                       fetchvars, sleep_for, histvars, clockvars, proxyvars>>

\* settings_handle.lock(): the loop takes the Mutex at the top of an
\* iteration
LockSettings ==
    /\ pc = "top"
    /\ settings_lock = "free"
    /\ settings_lock' = "loop"
    /\ pc' = "locked"
    /\ UNCHANGED <<settings_handle, settings, loopvars, elapsed, fetchvars,
                   sleep_for, histvars, clockvars, proxyvars>>

\* the time between h_since and the end of an iteration that ends el
\* seconds after its top
SinceAt(el) == Min(MaxSince, h_since + el - elapsed)

\* the end of an iteration that passed the symbol check: schedule the next
\* refresh if this one refreshed, rotate, compute the sleep
Finish(r, s, el, refreshed) ==
    \E r1 \in {IF refreshed THEN Schedule(r, s, el) ELSE r} :
    \E r2 \in {RotateStep(r1, s)} :
        /\ Commit(r2)
        /\ h_step' = r1
        /\ h_since' = IF r2.advanced THEN 0 ELSE SinceAt(el)
        /\ h_gap' = IF r2.advanced THEN SinceAt(el) ELSE 0
        /\ h_late' = h_late
        /\ sleep_for' = SleepFor(r2, s, el)
        /\ elapsed' = el
        /\ cursor' = 0
        /\ attempt' = 0
        /\ last_attempt_error' = NoFetchError
        /\ pc' = "sleep"

\* the MutexGuard of settings_handle.lock().unwrap().clone() is a temporary
\* dropped at the end of the let statement
LockAfterSnapshot == "free"

\* top of the loop up to the first await: the snapshot, the special
\* states, the rotate_index reset and the start of the failover
LoopTop ==
    /\ pc = "locked"
    /\ UNCHANGED proxyvars
    /\ settings' = settings_handle
    /\ settings_lock' = LockAfterSnapshot
    /\ h_attempts' = <<>>
    /\ h_before' = [backoff |-> error_backoff_seconds,
                    token |-> token_index, rotate |-> rotate_index]
    /\ LET s == settings_handle
           r0 == [Locals EXCEPT
                     !.rotate_index =
                         ClampRotateIndex(rotate_index, Len(s.symbols)),
                     !.used = {}, !.advanced = FALSE]
           tokens == parse_tokens(s.token)
           start == ClampTokenIndex(token_index, Len(tokens))
       IN  IF s.symbols = <<>>
           THEN /\ Commit([Locals EXCEPT !.tray_title = TITLE_NO_SYMBOLS,
                                         !.tray_tooltip = TOOLTIP_NO_SYMBOLS,
                                         !.tray_icon = "pending",
                                         !.used = {}, !.advanced = FALSE])
                /\ UNCHANGED clockvars
                /\ sleep_for' = 1
                /\ elapsed' = 0
                /\ pc' = "sleep"
                /\ h_kind' = "nosymbols"
                /\ UNCHANGED <<fetchvars, h_prev, h_last_ok, h_fails>>
           ELSE IF next_refresh > 0
           THEN /\ Finish(r0, s, 0, FALSE)
                /\ h_kind' = "norefresh"
                /\ UNCHANGED <<h_prev, h_last_ok, h_fails>>
           ELSE IF tokens = <<>>
           THEN /\ Finish(ShowSetToken(r0), s, 0, TRUE)
                /\ h_kind' = "notoken"
                /\ UNCHANGED <<h_prev, h_last_ok, h_fails>>
           ELSE /\ Commit([r0 EXCEPT !.token_index = start])
                /\ cursor' = start
                /\ attempt' = 0
                /\ last_attempt_error' = NoFetchError
                /\ elapsed' = 0
                /\ pc' = "fetch"
                /\ h_kind' = "fetching"
                /\ UNCHANGED <<sleep_for, h_prev, h_last_ok, h_fails,
                               clockvars>>

RECURSIVE Codes(_)
Codes(symbols) ==
    IF symbols = <<>> THEN <<>>
    ELSE <<Head(symbols).code>> \o Codes(Tail(symbols))

\* faulty variant of CycleSettings: the shared value is read again
CycleSettings_Live == settings_handle

\* the settings an iteration works with after its top: the local clone
CycleSettings == settings

\* one pass of the while loop: an awaited fetch_batch_quotes, which
\* resolves the proxy on the platform it finds, and its match arm,
\* followed by the rest of the iteration when the loop ends
FetchAttemptOn(shapes, platforms) ==
    /\ pc = "fetch"
    /\ \E platform \in platforms :
           /\ proxy_setting' =
                  ProxySettingFor(CycleSettings.use_system_proxy, platform)
           /\ h_platform' = platform
    /\ \E shape \in shapes, took \in 0 .. MaxFetchSeconds :
        LET tokens == parse_tokens(CycleSettings.token)
            reply == ReplyOf(Codes(CycleSettings.symbols), shape)
            result == fetch_batch_quotes(reply)
            el == elapsed + took
            err == RecordAttemptError(last_attempt_error, result.err)
            moved == NextCursor(cursor, Len(tokens))
        IN  /\ h_attempts' = Append(h_attempts,
                                    [index |-> cursor, reply |-> reply])
            /\ UNCHANGED <<settings_handle, settings_lock, settings,
                           h_before>>
            /\ IF result.ok
               THEN /\ Finish(AfterAttempts(Locals, CycleSettings,
                                            Some(result.map),
                                            cursor, last_attempt_error),
                              CycleSettings, el, TRUE)
                    /\ h_kind' = "ok"
                    /\ h_prev' = [kind |-> "ok", tokens |-> tokens,
                                  index |-> cursor]
                    /\ h_last_ok' = cursor
                    /\ h_fails' = 0
               ELSE IF attempt + 1 < Len(tokens)
               THEN /\ last_attempt_error' = err
                    /\ cursor' = moved
                    /\ attempt' = attempt + 1
                    /\ elapsed' = el
                    /\ h_since' = SinceAt(el)
                    /\ UNCHANGED <<pc, loopvars, sleep_for, h_kind, h_prev,
                                   h_last_ok, h_fails, h_step, h_gap, h_late>>
               ELSE /\ Finish(AfterAttempts(Locals, CycleSettings, None(<<>>),
                                            moved, err),
                              CycleSettings, el, TRUE)
                    /\ h_kind' = "fail"
                    /\ h_prev' = [kind |-> "fail", tokens |-> tokens,
                                  index |-> 0]
                    /\ h_last_ok' = h_last_ok
                    /\ h_fails' = Min(h_fails + 1, MaxFailStreak)

\* an attempt on a platform without proxy configuration
FetchAttempt(shapes) ==
    FetchAttemptOn(shapes, {PlainPlatform(NoEnvironment)})

\* the awaited fetch_batch_quotes returns: what a step of FetchAttempt
\* records of the attempt.  Under the next-state relations below its steps
\* are the steps of FetchAttempt and it is enabled exactly when
\* FetchAttempt is.
FetchReturns(shapes) ==
    /\ pc = "fetch"
    /\ \E shape \in shapes :
           h_attempts' =
               Append(h_attempts,
                      [index |-> cursor,
                       reply |-> ReplyOf(Codes(CycleSettings.symbols), shape)])

\* tokio::time::sleep returns after the duration, or later
Sleep ==
    /\ pc = "sleep"
    /\ \E over \in (0 .. MaxOverSleep) \cup {SuspendSeconds} :
        LET passed == elapsed + sleep_for + over
        IN  /\ next_refresh' = Max(0, next_refresh - passed)
            /\ next_rotate' = Max(0, next_rotate - passed)
            /\ h_since' = Min(MaxSince, h_since + sleep_for + over)
            /\ h_late' = (over = SuspendSeconds)
    /\ h_step' = InitialLocals
    /\ h_gap' = 0
    /\ h_advanced' = FALSE
    /\ elapsed' = 0
    /\ sleep_for' = 0
    /\ pc' = "top"
    /\ h_kind' = "idle"
    /\ h_attempts' = <<>>
    /\ h_rotate_used' = {}
    /\ h_before' = NothingBefore
    /\ proxy_setting' = NoProxySetting
    /\ h_platform' = PlainPlatform(NoEnvironment)
    /\ UNCHANGED <<settings_handle, settings_lock, settings, last_prices,
                   trends, rotate_index, last_title, last_error,
                   error_backoff_seconds, token_index, tray_title,
                   tray_tooltip, tray_icon, fetchvars,
                   h_prev, h_last_ok, h_fails>>

\* the failover over several credentials, one symbol in Fixed mode
InitCredentials == InitWith(CredentialInputs)

NextCredentials ==
    \/ save_settings_command(CredentialInputs)
    \/ LockSettings
    \/ LoopTop /\ UNCHANGED settings_handle
    \/ FetchAttempt(CredentialShapes)
    \/ Sleep

SpecCredentials == InitCredentials /\ [][NextCredentials]_vars

\* failure and recovery with two credentials or none, under the
\* scheduling of the loop: the task is polled again after every await,
\* every attempt returns and every sleep ends.  The fairness of the
\* attempts is stated with FetchReturns.
InitRecovery == InitWith(RecoveryInputs)

NextRecovery ==
    \/ save_settings_command(RecoveryInputs)
    \/ LockSettings
    \/ LoopTop /\ UNCHANGED settings_handle
    \/ FetchAttempt(RecoveryShapes)
    \/ Sleep

FairRecovery ==
    /\ InitRecovery /\ [][NextRecovery]_vars
    /\ WF_vars(LockSettings)
    /\ WF_vars(LoopTop /\ UNCHANGED settings_handle)
    /\ WF_h_attempts(FetchReturns(RecoveryShapes))
    /\ WF_vars(Sleep)

\* the display over several symbol lists and both modes, one credential
InitDisplay == InitWith(DisplayInputs \cup {DefaultSettings})

NextDisplay ==
    \/ save_settings_command(DisplayInputs)
    \/ LockSettings
    \/ LoopTop /\ UNCHANGED settings_handle
    \/ FetchAttempt(DisplayShapes)
    \/ Sleep

SpecDisplay == InitDisplay /\ [][NextDisplay]_vars

\* answers with ret = 200 whose items carry no usable candle, for two
\* symbols and two credentials
InitParsing == InitWith(ParsingInputs)

NextParsing ==
    \/ save_settings_command(ParsingInputs)
    \/ LockSettings
    \/ LoopTop /\ UNCHANGED settings_handle
    \/ FetchAttempt(ParsingShapes)
    \/ Sleep

SpecParsing == InitParsing /\ [][NextParsing]_vars

\* the settings alone, while the loop is not scheduled: a first run
\* without settings file, then the settings window saves any combination
\* of values
InitSettings == InitWith({DefaultSettings})

NextSettings == save_settings_command(SettingsInputs)

SpecSettings == InitSettings /\ [][NextSettings]_vars

\* the loop while values out of range or incomplete are saved; the
\* settings file of the start holds such a value or is missing
InitSubmission == InitWith(SubmissionInputs \cup {DefaultSettings})

NextSubmission ==
    \/ save_settings_command(SubmissionInputs)
    \/ LockSettings
    \/ LoopTop /\ UNCHANGED settings_handle
    \/ FetchAttempt(SubmissionShapes)
    \/ Sleep

SpecSubmission == InitSubmission /\ [][NextSubmission]_vars

\* attempts with and without use_system_proxy on every platform
InitProxy == InitWith(ProxyInputs)

NextProxy ==
    \/ save_settings_command(ProxyInputs)
    \/ LockSettings
    \/ LoopTop /\ UNCHANGED settings_handle
    \/ FetchAttemptOn(ProxyShapes, Platforms)
    \/ Sleep

SpecProxy == InitProxy /\ [][NextProxy]_vars

\* refreshes that fail, succeed or find no credential while the symbols
\* rotate
InitBackoff == InitWith(BackoffInputs)

NextBackoffScenario ==
    \/ save_settings_command(BackoffInputs)
    \/ LockSettings
    \/ LoopTop /\ UNCHANGED settings_handle
    \/ FetchAttempt(BackoffShapes)
    \/ Sleep

SpecBackoff == InitBackoff /\ [][NextBackoffScenario]_vars

\* rotation and fixed selection over two symbols, one credential that
\* may fail
InitRotation == InitWith(RotationInputs)

NextRotation ==
    \/ save_settings_command(RotationInputs)
    \/ LockSettings
    \/ LoopTop /\ UNCHANGED settings_handle
    \/ FetchAttempt(RotationShapes)
    \/ Sleep

SpecRotation == InitRotation /\ [][NextRotation]_vars

(***************************************************************************)
(* Properties                                                              *)
(***************************************************************************)
\* the credentials of the iteration's snapshot
Tokens == parse_tokens(settings.token)

\* the index the failover of the iteration starts at: token_index as the
\* iteration found it, 0 if that is not an index of the list
StartIndex ==
    IF h_before.token >= Len(Tokens) THEN 0 ELSE h_before.token

\* the reply is one that fetch_batch_quotes returns Ok for
Succeeded(reply) == reply.sent /\ reply.payload.ret = 200

\* the FetchError a failed reply stands for
ErrorOfReply(reply) ==
    IF reply.sent
    THEN [detail |-> <<"api", " ", "ret=">> \o Digits(reply.payload.ret),
          msg |-> reply.payload.msg]
    ELSE [detail |-> reply.error, msg |-> NoString]

RefreshedWith(kind) == pc = "sleep" /\ h_kind = kind

\* C1: in a refresh with n credentials starting at index s the attempts go
\* to s, s+1, ... modulo n, each credential at most once, none after the
\* first success, at most n in all; with [A, B, C], s = 1 and only C
\* succeeding the attempts are B then C and token_index ends at 2.
C1_RoundRobinAttempts ==
    LET n == Len(Tokens)
        made == Len(h_attempts)
    IN  /\ made > 0 => made <= n
        /\ \A k \in 1 .. made : h_attempts[k].index = (StartIndex + k - 1) % n
        /\ \A j, k \in 1 .. made : j # k =>
               h_attempts[j].index # h_attempts[k].index
        /\ \A k \in 1 .. made - 1 : ~Succeeded(h_attempts[k].reply)
        /\ ( /\ RefreshedWith("ok")
             /\ n = 3
             /\ StartIndex = 1
             /\ \A k \in 1 .. made :
                    Succeeded(h_attempts[k].reply) <=> h_attempts[k].index = 2 )
           => /\ made = 2
              /\ h_attempts[1].index = 1
              /\ h_attempts[2].index = 2
              /\ token_index = 2

\* C1 witness: [A, B, C] started at B, B failed and C succeeded
C1_Witness ==
    /\ RefreshedWith("ok")
    /\ Len(Tokens) = 3
    /\ StartIndex = 1
    /\ Len(h_attempts) = 2
    /\ ~Succeeded(h_attempts[1].reply)
    /\ Succeeded(h_attempts[2].reply)

\* C2: when every credential of a refresh fails, last_error is the error
\* of the last attempt, the one on credential (s - 1) mod n, whatever the
\* earlier attempts returned, and it carries the server msg of a
\* ret # 200 reply; for [A, B] started at A it is B's error.
C2_LastErrorSurfaced ==
    RefreshedWith("fail") =>
        LET n == Len(Tokens)
            last == h_attempts[Len(h_attempts)]
        IN  /\ Len(h_attempts) = n
            /\ last.index = (StartIndex + n - 1) % n
            /\ last_error = Some(ErrorOfReply(last.reply))
            /\ last.reply.sent => last_error.val.msg = last.reply.payload.msg
            /\ (n = 2 /\ StartIndex = 0) => last.index = 1

\* C2 witness: [A, B] started at A, A refused with a msg, B timed out
C2_Witness ==
    /\ RefreshedWith("fail")
    /\ Len(Tokens) = 2
    /\ StartIndex = 0
    /\ h_attempts[1].reply.sent
    /\ ~h_attempts[2].reply.sent

\* C3: after a refresh that succeeds with credential i token_index is i,
\* and the next refresh with the same credential list makes its first
\* attempt with credential i.
C3_StickyCredential ==
    /\ RefreshedWith("ok") =>
           token_index = h_attempts[Len(h_attempts)].index
    /\ (pc = "fetch" /\ h_prev.kind = "ok" /\ h_prev.tokens = Tokens) =>
           IF h_attempts = <<>> THEN cursor = h_prev.index
           ELSE h_attempts[1].index = h_prev.index

\* C3 witness: the refresh after a success with the third credential has
\* made its first attempt
C3_Witness ==
    /\ pc = "fetch"
    /\ h_prev.kind = "ok"
    /\ h_prev.index = 2
    /\ h_prev.tokens = Tokens
    /\ h_attempts # <<>>

\* C4 as claimed: every refresh starts at the index of the latest
\* successful credential (0 if there is none or the list is too short for
\* it), and a refresh in which all credentials fail leaves token_index as
\* it was.
C4_Original ==
    /\ pc = "fetch" =>
           StartIndex = (IF h_last_ok < Len(Tokens) THEN h_last_ok ELSE 0)
    /\ RefreshedWith("fail") => token_index = StartIndex

\* C4 as amended: a refresh starts at the index with which the latest
\* finished refresh with credentials succeeded, at 0 if that refresh
\* exhausted its credentials, if there was none, or if the index is not
\* one of the list; a refresh in which all credentials fail sets
\* token_index to 0, one with no credentials leaves it alone.
C4_TokenIndexPinnedOrReset ==
    /\ pc = "fetch" =>
           StartIndex = (IF h_prev.kind = "ok" /\ h_prev.index < Len(Tokens)
                         THEN h_prev.index ELSE 0)
    /\ RefreshedWith("fail") => token_index = 0
    /\ RefreshedWith("notoken") => token_index = h_before.token

\* C4 witness: all credentials failed in a refresh that did not start at 0
C4_Witness ==
    /\ RefreshedWith("fail")
    /\ StartIndex > 0

\* C5: with refresh_seconds = 10 the backoff after k refreshes exhausted
\* in a row is 30, 60, 120, 240, 300, 300, ...; error_backoff_seconds is
\* 0 or between refresh_seconds and 300.
C5_BackoffSequence ==
    /\ settings.refresh_seconds = 10 =>
           error_backoff_seconds =
               CASE h_fails = 0 -> 0
                 [] h_fails = 1 -> 30
                 [] h_fails = 2 -> 60
                 [] h_fails = 3 -> 120
                 [] h_fails = 4 -> 240
                 [] OTHER -> 300
    /\ \/ error_backoff_seconds = 0
       \/ /\ settings.refresh_seconds <= error_backoff_seconds
          /\ error_backoff_seconds <= 300

\* C5 witness: the sixth failure in a row, the second one at the cap
C5_Witness ==
    /\ RefreshedWith("fail")
    /\ h_fails = 6
    /\ h_before.backoff = 300
    /\ error_backoff_seconds = 300

\* the backoff one more exhausted refresh leads to
Escalated(backoff, base) ==
    IF backoff = 0 THEN 3 * base
    ELSE IF 2 * backoff > 300 THEN 300 ELSE 2 * backoff

\* C6: a refresh ends with the next deadline at the current time plus the
\* backoff if that is not 0, else plus refresh_seconds, the backoff being
\* the one this refresh left: 0 after a success, the escalated value after
\* a failure.
C6_DeadlineAfterBackoffUpdate ==
    (pc = "sleep" /\ h_kind \in {"ok", "fail", "notoken"}) =>
        /\ next_refresh - elapsed =
               (IF error_backoff_seconds # 0 THEN error_backoff_seconds
                ELSE settings.refresh_seconds)
        /\ h_kind = "ok" =>
               /\ error_backoff_seconds = 0
               /\ next_refresh - elapsed = settings.refresh_seconds
        /\ h_kind = "fail" =>
               /\ error_backoff_seconds =
                      Escalated(h_before.backoff, settings.refresh_seconds)
               /\ next_refresh - elapsed =
                      Escalated(h_before.backoff, settings.refresh_seconds)

\* C6 witness: the second failure in a row, after attempts that took time
C6_Witness ==
    /\ RefreshedWith("fail")
    /\ elapsed > 0
    /\ h_before.backoff = 30
    /\ next_refresh = elapsed + 60

\* the token text has no line with anything but white space on it
NoNonBlankLine(text) ==
    \A i \in DOMAIN text : IsWhite(text[i])

\* C7: in an iteration whose snapshot has no credential no attempt is made
C7_NoFetchWithoutCredentials ==
    NoNonBlankLine(settings.token) => (pc # "fetch" /\ h_attempts = <<>>)

\* C7 witness: a refresh ran with a snapshot without credentials
C7_Witness ==
    /\ RefreshedWith("notoken")
    /\ NoNonBlankLine(settings.token)

\* C8 as claimed: an iteration that refreshes without credentials goes to
\* sleep showing the fixed title, tooltip and the pending icon
C8_SetTokenDisplayWins ==
    RefreshedWith("notoken") =>
        /\ tray_title = TITLE_SET_TOKEN
        /\ tray_tooltip = TOOLTIP_SET_TOKEN
        /\ tray_icon = "pending"

\* C9 as claimed: after a refresh without credentials the backoff is 0 and
\* the next refresh is one refresh_seconds away
C9_NoTokenNeverBackedOff ==
    RefreshedWith("notoken") =>
        /\ error_backoff_seconds = 0
        /\ next_refresh - elapsed = settings.refresh_seconds

\* C10: every rotate_index read to select the shown symbol or to advance
\* is below the length of the snapshot's symbol list, also right after the
\* list shrank to or below the index; so is the index an iteration leaves.
C10_RotateIndexInRange ==
    /\ \A v \in h_rotate_used : v < Len(settings.symbols)
    /\ (pc = "sleep" /\ settings.symbols # <<>>) =>
           rotate_index < Len(settings.symbols)

\* C10 witness: an iteration found rotate_index at or beyond the length of
\* its symbol list, and read the index
C10_Witness ==
    /\ pc = "sleep"
    /\ h_before.rotate >= Len(settings.symbols)
    /\ h_rotate_used # {}

\* the codes of the iteration's snapshot
ConfiguredCodes == Range(Codes(settings.symbols))

\* C11 as claimed: when an iteration goes to sleep every key of
\* last_prices and of trends is the code of a symbol of the iteration's
\* snapshot, also after a save removed or renamed symbols
C11_CachedKeysAreConfigured ==
    pc = "sleep" =>
        /\ DOMAIN last_prices \subseteq ConfiguredCodes
        /\ DOMAIN trends \subseteq ConfiguredCodes

\* the line of the i-th symbol of the snapshot s when its trend is unknown
\* and prices holds the cached prices
StaleLine(s, i, prices) ==
    LET symbol == s.symbols[i]
    IN  IF symbol.code \in DOMAIN prices
        THEN <<TREND_FLAT, " ">> \o symbol.label \o <<" ">>
             \o FormatPrice(prices[symbol.code])
        ELSE symbol.label \o <<" ", "--">>

\* the tooltip of a failed refresh: the lines of the error, then the line
\* of each symbol of the snapshot s with the given prices
StaleTooltip(s, err, prices) ==
    Join(tooltip_lines(err)
         \o [i \in DOMAIN s.symbols |-> StaleLine(s, i, prices)],
         <<"\n">>)

\* C12: a step that ends a refresh without a successful fetch (every
\* credential failed, or there is none) leaves last_prices as it was; after
\* the failed attempts the tooltip has one line per symbol carrying the
\* price cached before, and a title the rotation step emits in such an
\* iteration carries the cached price of the symbol it selects.
C12_FailedRefreshKeepsPrices ==
    [][ (pc # "sleep" /\ pc' = "sleep" /\ h_kind' \in {"fail", "notoken"}) =>
            /\ last_prices' = last_prices
            /\ h_kind' = "fail" =>
                   tray_tooltip' =
                       StaleTooltip(settings', last_error'.val, last_prices)
            /\ h_advanced' =>
                   LET symbol == settings'.symbols[rotate_index' + 1]
                   IN  last_title' =
                           IF symbol.code \in DOMAIN last_prices
                           THEN symbol.label \o <<" ">>
                                \o FormatPrice(last_prices[symbol.code])
                           ELSE symbol.label \o <<" ", "--">>
      ]_vars

\* C12 witness: every credential failed in a refresh that found a price
\* cached, and the tooltip shows that price
C12_Witness ==
    /\ RefreshedWith("fail")
    /\ last_prices # <<>>
    /\ tray_tooltip = StaleTooltip(settings, last_error.val, last_prices)

\* C13: the step that ends a refresh in which every credential failed
\* leaves last_error set and error_backoff_seconds above 0; the refresh
\* step has set the title to the red dot followed by the title shown
\* before (the red dot alone if there was none), the icon to pending and
\* the tooltip to the lines of the error followed by one line per symbol
\* of the snapshot, in the order of the settings.
C13_ExhaustedRefreshShowsError ==
    [][ (pc = "fetch" /\ pc' = "sleep" /\ h_kind' = "fail") =>
            /\ last_error'.some
            /\ error_backoff_seconds' > 0
            /\ h_step'.tray_title =
                   (IF last_title = <<>> THEN <<RED_DOT>>
                    ELSE <<RED_DOT, " ">> \o last_title)
            /\ h_step'.tray_title # last_title
            /\ h_step'.tray_title # last_title \o <<"*">>
            /\ h_step'.tray_icon = "pending"
            /\ h_step'.tray_tooltip =
                   StaleTooltip(settings', last_error'.val, last_prices)
            /\ Len(Lines(h_step'.tray_tooltip)) =
                   Len(tooltip_lines(last_error'.val)) + Len(settings'.symbols)
      ]_vars

\* C13 witness: every credential failed, the last one with a msg, while a
\* title with a price was shown
C13_Witness ==
    /\ RefreshedWith("fail")
    /\ Len(h_attempts) > 1
    /\ last_error.val.msg.some
    /\ last_prices # <<>>
    /\ h_step.tray_title = <<RED_DOT, " ">> \o last_title
    /\ tray_icon = "pending"

\* the candles the reply carries for the code
CandlesFor(reply, code) ==
    { reply.payload.kline_list[k].kline_data[1] :
        k \in { j \in DOMAIN reply.payload.kline_list :
                  /\ reply.payload.kline_list[j].code = code
                  /\ reply.payload.kline_list[j].kline_data # <<>> } }

\* the symbol of the snapshot s that is selected with rotate index index
SelectedSymbol(s, index) ==
    IF s.display_mode = "Rotate" THEN s.symbols[index + 1]
    ELSE CHOOSE symbol \in Range(s.symbols) :
             symbol.code = s.fixed_symbol.val

\* C14: the step that ends a refresh with a successful fetch leaves, for
\* every symbol of the snapshot the reply has a candle for, the close price
\* in last_prices and in trends up, down or flat as the close is above,
\* below or equal to the open; for every other symbol of the snapshot flat
\* in trends and last_prices as it was.  If the reply had a candle for at
\* least one symbol, the refresh step has set the title to the label and
\* the cached price with two decimals of the selected symbol ("--" for
\* the price if none is cached), without red dot or "*", and the icon to
\* up, down or pending by its trend; a close of 105 and an open of 100
\* for Gold give "Gold 105.00" and the up icon.
C14_SuccessfulRefreshStoresAndShows ==
    [][ (pc = "fetch" /\ pc' = "sleep" /\ h_kind' = "ok") =>
            LET reply == h_attempts'[Len(h_attempts')].reply
                s == settings'
                answered == { i \in DOMAIN s.symbols :
                                CandlesFor(reply, s.symbols[i].code) # {} }
                shown == SelectedSymbol(s, h_step'.rotate_index)
            IN  /\ \A i \in answered :
                       LET code == s.symbols[i].code
                           candle == CHOOSE c \in CandlesFor(reply, code) : TRUE
                           close == ParseNumber(candle.close_price).val
                           open == ParseNumber(candle.open_price).val
                       IN  /\ code \in DOMAIN last_prices'
                           /\ last_prices'[code] = close
                           /\ trends'[code] =
                                  (IF close > open THEN TREND_UP
                                   ELSE IF close < open THEN TREND_DOWN
                                   ELSE TREND_FLAT)
                /\ \A i \in DOMAIN s.symbols \ answered :
                       LET code == s.symbols[i].code
                       IN  /\ trends'[code] = TREND_FLAT
                           /\ code \in DOMAIN last_prices'
                                  <=> code \in DOMAIN last_prices
                           /\ code \in DOMAIN last_prices =>
                                  last_prices'[code] = last_prices[code]
                /\ answered # {} =>
                       /\ h_step'.tray_title =
                              (IF shown.code \in DOMAIN last_prices'
                               THEN shown.label \o <<" ">>
                                    \o FormatPrice(last_prices'[shown.code])
                               ELSE shown.label \o <<" ", "--">>)
                       /\ h_step'.tray_icon =
                              (CASE trends'[shown.code] = TREND_UP -> "up"
                                 [] trends'[shown.code] = TREND_DOWN -> "down"
                                 [] OTHER -> "pending")
                       /\ ( /\ shown.label = <<"Gold">>
                            /\ CandlesFor(reply, shown.code) # {}
                            /\ last_prices'[shown.code] = 105
                            /\ trends'[shown.code] = TREND_UP )
                          => /\ h_step'.tray_title =
                                    <<"Gold", " ", "1", "0", "5", ".", "0", "0">>
                             /\ h_step'.tray_icon = "up"
      ]_vars

\* C14 witness: a refresh succeeded with a close of 105 over an open of
\* 100 for the selected symbol Gold
C14_Witness ==
    /\ RefreshedWith("ok")
    /\ h_step.tray_title = <<"Gold", " ", "1", "0", "5", ".", "0", "0">>
    /\ h_step.tray_icon = "up"
    /\ last_prices[<<"XAUUSD">>] = 105
    /\ trends[<<"XAUUSD">>] = TREND_UP

\* the settings values, as submitted, that the snapshot is the normal form
\* of
SubmittedAs(s) == { x \in DOMAIN Normalized : Normalized[x] = s }

\* the code a submitted value asks to fix the display on
WantedCode(x) ==
    IF x.fixed_symbol.some THEN Trim(x.fixed_symbol.val) ELSE <<>>

\* C15: with a snapshot in Fixed mode the selection yields a symbol, the
\* one whose code is fixed_symbol; that is the code the submitted settings
\* named if the list has it, and the first symbol of the list if the
\* submitted fixed_symbol named no code of the list or was unset.  The
\* title of a successful refresh is the one of that symbol.
C15_FixedSelection ==
    (settings.display_mode = "Fixed" /\ settings.symbols # <<>>) =>
        LET picked == pick_display_symbol(settings, rotate_index)
        IN  /\ picked.some
            /\ picked.val \in Range(settings.symbols)
            /\ picked.val.code = settings.fixed_symbol.val
            /\ \A x \in SubmittedAs(settings) :
                   IF WantedCode(x) \in ConfiguredCodes
                   THEN picked.val.code = WantedCode(x)
                   ELSE picked.val = settings.symbols[1]
            /\ (RefreshedWith("ok") /\ picked.val.code \in DOMAIN last_prices)
                   => last_title = picked.val.label \o <<" ">>
                                   \o FormatPrice(last_prices[picked.val.code])

\* C15 witness: a refresh succeeded in Fixed mode with settings submitted
\* with a fixed_symbol that is no code of the list of two symbols
C15_Witness ==
    /\ RefreshedWith("ok")
    /\ settings.display_mode = "Fixed"
    /\ Len(settings.symbols) = 2
    /\ \E x \in SubmittedAs(settings) :
           /\ x.fixed_symbol.some
           /\ WantedCode(x) \notin ConfiguredCodes
    /\ last_title = settings.symbols[1].label \o <<" ">>
                     \o FormatPrice(last_prices[settings.symbols[1].code])

\* rotate_index as the iteration found it, after the reset of an index
\* that is not one of the list
RotateIndexBefore ==
    IF h_before.rotate >= Len(settings.symbols) THEN 0 ELSE h_before.rotate

\* C16 as claimed: an iteration advances rotate_index only in Rotate mode,
\* by one modulo the length of the list, and only when at least
\* rotate_seconds have passed since the loop started or since the advance
\* before; otherwise it leaves the index alone.
C16_AdvanceOnlyAfterInterval ==
    (pc = "sleep" /\ settings.symbols # <<>>) =>
        /\ h_advanced => settings.display_mode = "Rotate"
        /\ h_advanced =>
               rotate_index = (RotateIndexBefore + 1) % Len(settings.symbols)
        /\ ~h_advanced => rotate_index = RotateIndexBefore
        /\ h_advanced => h_gap >= Min(settings.rotate_seconds, MaxSince)

\* the title of a symbol with the cached prices
CachedTitle(symbol, prices) ==
    IF symbol.code \in DOMAIN prices
    THEN symbol.label \o <<" ">> \o FormatPrice(prices[symbol.code])
    ELSE symbol.label \o <<" ", "--">>

\* C17: a rotation step that advances leaves last_prices, trends,
\* token_index, last_error, error_backoff_seconds, the next refresh
\* deadline and the tooltip as the refresh step of the iteration (if any)
\* left them, and an iteration without refresh makes no attempt; the step
\* moves rotate_index by one, sets the next rotation deadline and sets
\* last_title, the title and the icon from the cached price and trend of
\* the symbol the new index selects (the title behind the red dot while
\* last_error is set).
C17_RotationStepFrame ==
    (pc = "sleep" /\ h_advanced) =>
        LET symbol == settings.symbols[rotate_index + 1]
        IN  /\ last_prices = h_step.last_prices
            /\ trends = h_step.trends
            /\ token_index = h_step.token_index
            /\ last_error = h_step.last_error
            /\ error_backoff_seconds = h_step.error_backoff_seconds
            /\ next_refresh = h_step.next_refresh
            /\ tray_tooltip = h_step.tray_tooltip
            /\ h_kind = "norefresh" => h_attempts = <<>>
            /\ rotate_index =
                   (h_step.rotate_index + 1) % Len(settings.symbols)
            /\ next_rotate = settings.rotate_seconds
            /\ last_title = CachedTitle(symbol, h_step.last_prices)
            /\ tray_title = (IF h_step.last_error.some
                             THEN <<RED_DOT, " ">> \o last_title
                             ELSE last_title)
            /\ tray_icon =
                   (IF symbol.code \notin DOMAIN h_step.trends THEN "pending"
                    ELSE CASE h_step.trends[symbol.code] = TREND_UP -> "up"
                           [] h_step.trends[symbol.code] = TREND_DOWN -> "down"
                           [] OTHER -> "pending")

\* C17 witness: an iteration without refresh advanced while an error and
\* a price were cached
C17_Witness ==
    /\ RefreshedWith("norefresh")
    /\ h_advanced
    /\ last_error.some
    /\ next_refresh > 0
    /\ settings.symbols[rotate_index + 1].code \in DOMAIN last_prices
    /\ tray_title = <<RED_DOT, " ">> \o last_title

\* the codes the reply answers
AnsweredCodes(reply) ==
    { reply.payload.kline_list[k].code : k \in DOMAIN reply.payload.kline_list }

\* C18: while an attempt is awaited and while the loop sleeps the loop
\* does not hold the Mutex and save_settings_command can complete; the
\* snapshot changes only at the top of an iteration, where it becomes the
\* shared value as the latest save left it; the attempts, the tooltip,
\* the rotation and the deadlines of an iteration are those of its
\* snapshot, also when a save replaced the shared value meanwhile.
C18_SnapshotPerCycle ==
    /\ [](pc \in {"fetch", "sleep"} =>
             /\ settings_lock = "free"
             /\ ENABLED save_settings_command(DisplayInputs))
    /\ []((pc = "sleep" /\ h_kind \in {"ok", "fail"}) =>
             /\ Len(h_attempts) <= Len(Tokens)
             /\ \A k \in DOMAIN h_attempts :
                    AnsweredCodes(h_attempts[k].reply) \subseteq ConfiguredCodes
             /\ h_step.tray_tooltip = TooltipText(h_step, settings)
             /\ h_step.next_refresh - elapsed =
                    RefreshDelay(error_backoff_seconds,
                                 settings.refresh_seconds)
             /\ h_advanced =>
                    /\ settings.display_mode = "Rotate"
                    /\ next_rotate = settings.rotate_seconds)
    /\ [][ IF pc = "locked" THEN settings' = settings_handle
           ELSE settings' = settings ]_vars

\* C18 witness: a refresh ended after a save replaced the symbol list
\* while the attempt was awaited
C18_Witness ==
    /\ RefreshedWith("ok")
    /\ settings_handle.symbols # settings.symbols
    /\ Len(settings_handle.symbols) # Len(settings.symbols)
    /\ h_step.tray_tooltip = TooltipText(h_step, settings)

\* C19: the iteration that follows a sleep suspended past the refresh and
\* the rotation deadline by more than any interval runs one refresh with
\* one failover sequence (no attempt without credentials) and, in Rotate
\* mode, one advance of rotate_index; it leaves the refresh deadline one
\* refresh delay after the end of the refresh and the rotation deadline
\* rotate_seconds after the wake, so that the sleep that follows is not 0
\* and no deadline is left elapsed.
C19_MissedTicksNotQueued ==
    (pc = "sleep" /\ h_late /\ settings.symbols # <<>>) =>
        /\ h_kind \in {"ok", "fail", "notoken"}
        /\ Len(h_attempts) <= Len(Tokens)
        /\ \A j, k \in DOMAIN h_attempts :
               j # k => h_attempts[j].index # h_attempts[k].index
        /\ next_refresh = elapsed + RefreshDelay(error_backoff_seconds,
                                                 settings.refresh_seconds)
        /\ next_refresh > elapsed
        /\ IF settings.display_mode = "Rotate"
           THEN /\ h_advanced
                /\ rotate_index =
                       (RotateIndexBefore + 1) % Len(settings.symbols)
                /\ next_rotate = settings.rotate_seconds
           ELSE /\ ~h_advanced
                /\ rotate_index = RotateIndexBefore
        /\ sleep_for >= 1

\* C19 witness: after a suspended sleep an iteration in Rotate mode
\* refreshed with an attempt that took time, and advanced
C19_Witness ==
    /\ pc = "sleep"
    /\ h_late
    /\ h_kind = "ok"
    /\ h_advanced
    /\ elapsed > 0
    /\ next_refresh = elapsed + settings.refresh_seconds
    /\ next_rotate = settings.rotate_seconds

\* an iteration has just run the refresh step
JustRefreshed == pc = "sleep" /\ h_kind \in {"ok", "fail", "notoken"}

\* C20: when every attempt returns and every sleep ends, the loop never
\* stops and a refresh runs again and again, also after
\* refreshes in which every credential failed; if from some point on the
\* shared settings have a credential and no refresh exhausts its
\* credentials, then from some point on last_error is None and
\* error_backoff_seconds is 0.
C20_LoopKeepsRefreshing ==
    /\ []<>JustRefreshed
    /\ ( /\ <>[](parse_tokens(settings_handle.token) # <<>>)
         /\ <>[](h_kind # "fail") )
       => <>[](~last_error.some /\ error_backoff_seconds = 0)

\* C20 witness: a refresh succeeded after refreshes that had raised the
\* backoff to its cap
C20_Witness ==
    /\ RefreshedWith("ok")
    /\ h_before.backoff = ERROR_BACKOFF_MAX_SECONDS
    /\ ~last_error.some
    /\ error_backoff_seconds = 0

\* the text is a decimal number without sign or point
IsNumber(text) == text # <<>> /\ \A i \in DOMAIN text : IsDigit(text[i])

\* the codes for which the reply has an item with a first candle whose
\* close price, timestamp and open price are numbers
PricedCodes(reply) ==
    { reply.payload.kline_list[k].code :
        k \in { j \in DOMAIN reply.payload.kline_list :
                  LET data == reply.payload.kline_list[j].kline_data
                  IN  /\ data # <<>>
                      /\ IsNumber(data[1].close_price)
                      /\ IsNumber(data[1].timestamp)
                      /\ IsNumber(data[1].open_price) } }

\* C21: an attempt whose reply has ret = 200 ends the refresh as a success
\* whatever its items carry: no further credential is tried, the returned
\* map has exactly the codes with a candle of three numbers, last_error is
\* None, error_backoff_seconds is 0, token_index is the index of the
\* credential used, and every symbol of the snapshot that is not in the map
\* has the unknown trend and the price cached before (if any).
C21_UnparsableItemsAreNotErrors ==
    [][ ( /\ pc = "fetch"
          /\ Len(h_attempts') = Len(h_attempts) + 1
          /\ h_attempts'[Len(h_attempts')].reply.sent
          /\ h_attempts'[Len(h_attempts')].reply.payload.ret = 200 ) =>
            LET reply == h_attempts'[Len(h_attempts')].reply
                s == settings'
            IN  /\ pc' = "sleep"
                /\ h_kind' = "ok"
                /\ fetch_batch_quotes(reply).ok
                /\ DOMAIN fetch_batch_quotes(reply).map = PricedCodes(reply)
                /\ ~last_error'.some
                /\ error_backoff_seconds' = 0
                /\ token_index' = cursor
                /\ h_attempts'[Len(h_attempts')].index = cursor
                /\ \A i \in DOMAIN s.symbols :
                       LET code == s.symbols[i].code
                       IN  code \notin PricedCodes(reply) =>
                               /\ trends'[code] = TREND_FLAT
                               /\ code \in DOMAIN last_prices'
                                      <=> code \in DOMAIN last_prices
                               /\ code \in DOMAIN last_prices =>
                                      last_prices'[code] = last_prices[code]
      ]_vars

\* C21 witness: after a refresh that failed, the first credential is
\* refused and the second is answered with ret = 200 and items of which
\* none has a candle of three numbers
C21_Witness ==
    /\ RefreshedWith("ok")
    /\ h_before.backoff > 0
    /\ Len(h_attempts) = 2
    /\ h_attempts[2].reply.payload.kline_list # <<>>
    /\ PricedCodes(h_attempts[2].reply) = {}
    /\ token_index = 1
    /\ ~last_error.some
    /\ error_backoff_seconds = 0
    /\ \A i \in DOMAIN settings.symbols :
           trends[settings.symbols[i].code] = TREND_FLAT

\* C22: every value normalize_settings returned is left as it is by
\* normalize_settings, field by field, whatever token text, symbol list
\* (blank, duplicate, untrimmed codes and labels), display mode,
\* fixed_symbol, rotate_seconds and refresh_seconds was submitted.
C22_NormalizeIdempotent ==
    LET once == settings_handle
        twice == normalize_settings(settings_handle)
    IN  /\ \E x \in SettingsInputs : once = normalize_settings(x)
        /\ twice.token = once.token
        /\ twice.symbols = once.symbols
        /\ twice.display_mode = once.display_mode
        /\ twice.api_type = once.api_type
        /\ twice.refresh_seconds = once.refresh_seconds
        /\ twice.rotate_seconds = once.rotate_seconds
        /\ twice.fixed_symbol = once.fixed_symbol
        /\ twice.use_system_proxy = once.use_system_proxy

\* C22 witness: the shared value is the normal form of settings submitted
\* with blank lines in the token text, four symbols of which two remain,
\* Fixed mode on a code that is not in the list and an interval of 0
C22_Witness ==
    \E x \in SettingsInputs :
        /\ settings_handle = normalize_settings(x)
        /\ x.token # settings_handle.token
        /\ Len(x.symbols) = 4
        /\ Len(settings_handle.symbols) = 2
        /\ x.display_mode = "Fixed"
        /\ x.fixed_symbol = Some(<<"nope">>)
        /\ x.rotate_seconds = 0
        /\ x.refresh_seconds # default_refresh_seconds
        /\ normalize_settings(settings_handle) = settings_handle

\* the positions of a submitted symbol list at which a trimmed, non-empty
\* code occurs for the first time
FirstOccurrences(list) ==
    { i \in DOMAIN list :
        /\ Trim(list[i].code) # <<>>
        /\ \A j \in 1 .. i - 1 : Trim(list[j].code) # Trim(list[i].code) }

\* the k-th smallest position of the set
KthOf(positions, k) ==
    CHOOSE i \in positions : Cardinality({j \in positions : j < i}) = k - 1

\* C23: for every submitted value the shared value is the normal form of,
\* the normalized symbol list has one entry per distinct trimmed non-empty
\* code of the submitted list (codes that differ in case are distinct), in
\* the order of the first occurrences, each with the trimmed label of the
\* first occurrence, or the code if that label is blank; if the submitted
\* list has no non-empty code the list is the default list of the
\* submitted category.
C23_SymbolsDeduplicatedInOrder ==
    \A x \in SettingsInputs :
        normalize_settings(x) = settings_handle =>
            LET firsts == FirstOccurrences(x.symbols)
                out == settings_handle.symbols
            IN  IF firsts = {}
                THEN out = (IF x.api_type = "Commodity" THEN default_symbols
                            ELSE default_stock_symbols)
                ELSE /\ Len(out) = Cardinality(firsts)
                     /\ \A k \in DOMAIN out :
                            LET first == x.symbols[KthOf(firsts, k)]
                            IN  /\ out[k].code = Trim(first.code)
                                /\ out[k].label =
                                       (IF Trim(first.label) = <<>>
                                        THEN Trim(first.code)
                                        ELSE Trim(first.label))
                     /\ \A j, k \in DOMAIN out :
                            j # k => out[j].code # out[k].code
                     /\ {out[k].code : k \in DOMAIN out} =
                            {Trim(x.symbols[i].code) : i \in DOMAIN x.symbols}
                                \ {<<>>}

\* C23 witness: the shared value is the normal form of a list of four
\* symbols whose first and last code are the same when trimmed, whose
\* second and third code differ in case only, and whose first label is
\* empty
C23_Witness ==
    \E x \in SettingsInputs :
        /\ settings_handle = normalize_settings(x)
        /\ Len(x.symbols) = 4
        /\ x.symbols[1].code # x.symbols[4].code
        /\ Trim(x.symbols[1].code) = Trim(x.symbols[4].code)
        /\ x.symbols[1].label = <<>>
        /\ settings_handle.symbols =
               << Sym(<<"BTCUSDT">>, <<"BTCUSDT">>),
                  Sym(<<"silver">>, <<"low">>),
                  Sym(<<"Silver">>, <<"Ag">>) >>

\* the settings value is in the form normalize_settings leaves
IsNormalized(s) ==
    /\ s.rotate_seconds >= 3
    /\ s.rotate_seconds <= 3600
    /\ s.refresh_seconds = 10
    /\ s.symbols # <<>>
    /\ \A i, j \in DOMAIN s.symbols :
           i # j => s.symbols[i].code # s.symbols[j].code
    /\ s.display_mode = "Fixed" =>
           /\ s.fixed_symbol.some
           /\ \E i \in DOMAIN s.symbols :
                  s.symbols[i].code = s.fixed_symbol.val

\* C24: the shared value, and so every snapshot the loop takes of it, has
\* rotate_seconds from 3 to 3600, refresh_seconds 10, a symbol list that
\* is not empty and has no code twice and, in Fixed mode, a fixed_symbol
\* that is a code of the list, whatever the settings file held or a save
\* submitted; no iteration takes the branch for an empty symbol list and
\* its title is never shown.
C24_ObservedSettingsAreNormalized ==
    /\ IsNormalized(settings_handle)
    /\ IsNormalized(settings)
    /\ h_kind # "nosymbols"
    /\ tray_title # TITLE_NO_SYMBOLS
    /\ tray_tooltip # TOOLTIP_NO_SYMBOLS

\* C24 witness: an iteration refreshed with the snapshot of a value that
\* was submitted with an empty symbol list, rotate_seconds 0 and
\* refresh_seconds 1
C24_Witness ==
    /\ RefreshedWith("ok")
    /\ \E x \in SubmissionInputs :
           /\ x.symbols = <<>>
           /\ x.rotate_seconds = 0
           /\ x.refresh_seconds = 1
           /\ settings = normalize_settings(x)
    /\ settings.symbols = default_stock_symbols
    /\ settings.rotate_seconds = ROTATE_MIN_SECONDS
    /\ next_refresh = elapsed + default_refresh_seconds

\* the url of the first protocol of the platform, in the order HTTPS,
\* HTTP, SOCKS, that is enabled with a host and a port other than 0
NativeChoice(platform) ==
    IF ~platform.scutil.some THEN NoString
    ELSE IF platform.https = "good"
    THEN Some(<<"http", "://", "proxy.https", ":", "4", "4", "3">>)
    ELSE IF platform.http = "good"
    THEN Some(<<"http", "://", "proxy.http", ":", "8", "0">>)
    ELSE IF platform.socks = "good"
    THEN Some(<<"socks5", "://", "proxy.socks", ":", "9">>)
    ELSE NoString

\* the variables in the order of the claim
VariableOrder ==
    <<"HTTPS_PROXY", "https_proxy", "HTTP_PROXY", "http_proxy", "ALL_PROXY",
      "all_proxy">>

\* the positions of VariableOrder whose variable is set to more than white
\* space
SetVariables(env) ==
    { i \in DOMAIN VariableOrder :
        /\ env[VariableOrder[i]].some
        /\ \E j \in DOMAIN env[VariableOrder[i]].val :
               ~IsWhite(env[VariableOrder[i]].val[j]) }

\* C25: the proxy_setting of an attempt is None when the snapshot has
\* use_system_proxy = false, whatever the platform; when it is true it is
\* the url of the first of HTTPS, HTTP, SOCKS that the native
\* configuration has enabled with a host and a port other than 0 (scheme
\* http for HTTPS and HTTP, socks5 for SOCKS), with source system;
\* without such a protocol, or without native configuration, it is the
\* trimmed value of the first variable of the claimed order that is set to
\* more than white space, with source env; and None if there is none.
C25_ProxyResolution ==
    (pc = "sleep" /\ h_kind = "ok") =>
        LET native == NativeChoice(h_platform)
            set == SetVariables(h_platform.env)
            first == CHOOSE i \in set : \A j \in set : i <= j
        IN  IF ~settings.use_system_proxy THEN ~proxy_setting.some
            ELSE IF native.some
            THEN proxy_setting = Some([url |-> native.val, source |-> "system"])
            ELSE IF set # {}
            THEN proxy_setting =
                     Some([url |-> Trim(h_platform.env[VariableOrder[first]].val),
                           source |-> "env"])
            ELSE ~proxy_setting.some

\* C25 witness: with use_system_proxy an attempt found HTTPS enabled with
\* port 0, HTTP and SOCKS configured, and HTTPS_PROXY set, and chose HTTP
C25_Witness ==
    /\ RefreshedWith("ok")
    /\ settings.use_system_proxy
    /\ h_platform.scutil.some
    /\ h_platform.https = "noport"
    /\ h_platform.http = "good"
    /\ h_platform.socks = "good"
    /\ h_platform.env["HTTPS_PROXY"] = Some(<<"http://p1">>)
    /\ proxy_setting = Some([url |-> <<"http", "://", "proxy.http", ":",
                                       "8", "0">>,
                             source |-> "system"])

\* the instant the claim has the loop sleep until, as an offset from `now`
ClaimedTick ==
    IF settings.display_mode = "Rotate"
    THEN Min(next_refresh, next_rotate)
    ELSE next_refresh

\* C26: the sleep that ends an iteration lasts until the earlier of
\* next_refresh and, in Rotate mode only, next_rotate; when that instant
\* is not after Instant::now() it lasts one second; so every sleep has a
\* positive length.
C26_SleepUntilNextDeadline ==
    pc = "sleep" =>
        /\ sleep_for >= 1
        /\ IF ClaimedTick > elapsed
           THEN sleep_for = ClaimedTick - elapsed
           ELSE sleep_for = 1

\* C26 witness: in Rotate mode the fetch of the iteration outlasted the
\* rotation deadline, which is the earlier one, and the loop sleeps 1 s
C26_Witness ==
    /\ pc = "sleep"
    /\ settings.display_mode = "Rotate"
    /\ h_attempts # <<>>
    /\ next_rotate < next_refresh
    /\ next_rotate > 0
    /\ next_rotate <= elapsed
    /\ sleep_for = 1

\* the title ends with '*' and the character before it is another one
EndsWithOneStar(title) ==
    /\ title # <<>>
    /\ title[Len(title)] = "*"
    /\ Len(title) > 1 => title[Len(title) - 1] # "*"

\* the reply has a price for none of the symbols of the snapshot
NothingPriced(reply) == PricedCodes(reply) \cap ConfiguredCodes = {}

\* C27 as claimed: a refresh whose fetch succeeds without a price for any
\* configured symbol leaves no error and appends '*' to last_title only
\* if last_title is not empty and does not end with '*'; after such a
\* refresh, when the iteration did not also advance the rotation, the
\* title the tray shows ends with exactly one '*'.
C27_StaleTitleEndsWithOneStar ==
    /\ [][ ( /\ pc = "fetch"
             /\ pc' = "sleep"
             /\ h_kind' = "ok"
             /\ NothingPriced(h_attempts[Len(h_attempts)].reply)'
             /\ ~h_advanced' ) =>
               /\ ~last_error'.some
               /\ last_title' =
                      IF last_title # <<>> /\ last_title[Len(last_title)] # "*"
                      THEN Append(last_title, "*")
                      ELSE last_title ]_vars
    /\ []( ( /\ RefreshedWith("ok")
             /\ NothingPriced(h_attempts[Len(h_attempts)].reply)
             /\ ~h_advanced ) =>
               EndsWithOneStar(tray_title) )

\* C28: last_error is set exactly when error_backoff_seconds is above 0;
\* a refresh in which every credential failed leaves both set, a refresh
\* whose fetch succeeded leaves both cleared, an iteration without refresh
\* or with an empty token list leaves both as they were, and so does the
\* rotation step of any iteration.
C28_ErrorIffBackoff ==
    /\ [](last_error.some <=> error_backoff_seconds > 0)
    /\ [][ (pc # "sleep" /\ pc' = "sleep") =>
             /\ h_kind' = "fail" =>
                    (last_error'.some /\ error_backoff_seconds' > 0)
             /\ h_kind' = "ok" =>
                    (~last_error'.some /\ error_backoff_seconds' = 0)
             /\ h_kind' \in {"notoken", "norefresh"} =>
                    UNCHANGED <<last_error, error_backoff_seconds>>
             /\ last_error' = h_step'.last_error
             /\ error_backoff_seconds' = h_step'.error_backoff_seconds ]_vars

\* C28 witness: after a failed refresh the token text was emptied; the
\* next refresh found no credential, advanced the rotation and left the
\* error and the backoff in place
C28_Witness ==
    /\ RefreshedWith("notoken")
    /\ h_advanced
    /\ h_before.backoff > 0
    /\ last_error.some
    /\ error_backoff_seconds = h_before.backoff

====
